---- MODULE Spec2Model ----
(***************************************************************************)
(* Model of smart-terminal-narrator (src/narrator/*.py).                   *)
(*                                                                         *)
(* Spec      the narration pipeline of narrator/main.py and                *)
(*           narrator/tts.py: the capture loop (main thread), the          *)
(*           NarrationQueue consumer thread, the CommandListener thread,   *)
(*           a thread calling NarrationQueue.interrupt (Escape hot key or  *)
(*           the wake-word loop's speech interrupt) and the audio player   *)
(*           process.  One step is one Python statement outside a lock,    *)
(*           the taking of the queue lock, the body of a `with             *)
(*           self._lock:` block up to its release, or one whole `with      *)
(*           _audio_lock:` block: the blocks of tts.py hold no blocking    *)
(*           call.                                                         *)
(* WakeSpec  the wake-word acoustic loop of narrator/wakeword.py, the      *)
(*           threads it starts for the wake callback, and the positions   *)
(*           of the capture loop of narrator/main.py beside them.          *)
(* DeltaSpec the delta extractor get_new_output of narrator/capture.py,     *)
(*           applied by the pane branch of the capture loop to a previous  *)
(*           and a current snapshot.  A snapshot is its sequence of lines  *)
(*           (str.splitlines); the empty text is the one with no line.     *)
(* StreamSpec the same branch polling a pane that shows the last lines of   *)
(*           an append-only stream, poll after poll.                       *)
(* CleanSpec the noise filter clean_terminal_output of narrator/clean.py,   *)
(*           applied to a text and to its own result.  A text is its       *)
(*           sequence of characters.                                       *)
(* VoiceSpec one voice capture session of narrator/stt.py:                 *)
(*           VoiceInput.listen_and_transcribe and record_utterance.        *)
(* VoiceLiveSpec  the same session with every step of it eventually taken  *)
(*           (each blocking read, VAD call and transcription returns).     *)
(* LiveSpec  the narration pipeline of Spec with one queue bound, where    *)
(*           every thread that can take a step eventually takes one, a     *)
(*           lock that keeps being released is eventually acquired and     *)
(*           the audio player eventually exits.                            *)
(* CaptureSpec  the capture step of the capture loop in both modes:        *)
(*           capture_from_file of narrator/capture.py and the cursor       *)
(*           logfile_pos of narrator/main.py over a log file that is       *)
(*           appended to, truncated, removed and created; capture_pane     *)
(*           and get_new_output over a pane whose capture can fail.        *)
(* TruncSpec the length limit of filter_with_llm in narrator/llm.py,       *)
(*           applied to a classifier response.  A response is a sequence   *)
(*           of runs of word characters and of white space.                *)
(***************************************************************************)
EXTENDS Integers, Sequences, FiniteSets, TLC

\* ------------------------------------------------------------------ bounds
\* largest queue bound (--max-queue) a run is constructed with
MaxPendingBound == 2
\* number of narration items the classifier hands to enqueue in one run
MaxItems == 3
\* last tick of the monotonic clock the wake-word loop is followed to
MaxTime == 9
\* largest advance of the clock between two audio frames, in ticks
MaxFrameStep == 2
\* longest run of consecutive VAD chunks at or above the interrupt
\* confidence the wake-word loop is followed through
MaxVadRun == 3
\* largest number of runs (words and the white space between them) of a
\* classifier response
MaxRuns == 3
\* largest size of the log file, in bytes
MaxFileBytes == 11
\* largest number of lines of the previous snapshot
MaxLines == 5
\* largest number of lines appended between two polls
MaxAppend == 2
\* largest number of lines of a pane that was redrawn as a whole
MaxAnyLines == 3
\* number of lines of a pane taller than the fallback tail
MaxLongLines == 22
\* number of lines of the pane through which the stream is seen
WindowLines == 6
\* largest number of characters of a text given to the noise filter
MaxChars == 5
\* largest --listen-timeout and --silence-timeout a session is given, in ticks
MaxListenTimeout == 5
MaxSilenceTimeout == 2

\* --------------------------------------------------------- program constants
\* wakeword.py:89  cooldown_until = now + 3.0  (one tick of the clock is 1 s)
WakeCooldown == 3
\* wakeword.py:18  threshold = 0.5, scores in tenths
WakeThreshold == 5
\* wakeword.py:104  conf >= 0.7, confidences in tenths
VadInterruptThreshold == 7
\* wakeword.py:67  chunk_samples = 1280
WakeChunkSamples == 1280
\* wakeword.py:101  Silero VAD chunks of 512 samples
VadChunkSamples == 512
\* capture.py:77  tail_size = min(20, len(cur_lines))
FallbackTail == 20
\* llm.py:97  max_narration = 500
max_narration == 500
\* main.py:334  if not new_text or len(new_text) < 10
MinTextChars == 10
\* stt.py:56  chunk_samples = 512
SttChunkSamples == 512
\* stt.py:57  speech_threshold = 0.5, confidences in tenths
SpeechThreshold == 5
\* stt.py:127  len(audio) < 1600
MinUtteranceSamples == 1600

VARIABLES
    \* --- NarrationQueue (tts.py:125-142)
    queue,          \* self._queue: sequence of items [id, q]
    paused,         \* self.paused (threading.Event), TRUE = set
    stopEv,         \* self._stop (threading.Event)
    qLock,          \* self._lock: "free", or the thread that holds it:
                    \* "main" | "worker" | "interrupt"
    max_pending,    \* self.max_pending
    on_question,    \* self.on_question_spoken is not None
    engine,         \* self.engine: "say" | "piper"
    \* --- module state of tts.py (25-27)
    cur_proc,       \* _current_audio_proc is not None
    proc_running,   \* the last started player process has not exited
    \* --- main thread: capture loop (main.py:313-360)
    alive,          \* the process is running
    exitCause,      \* why it ended: "none" | "ctrl_c" | "tmux_missing"
    mainPc,         \* position of the capture loop
    mainItem,       \* the item of the enqueue call in progress
    nextId,         \* number of enqueue calls made so far + 1
    clsOut,         \* the classification request of this cycle: "none" |
                    \* "failed" (transport or protocol failure) | "answered"
    \* --- consumer thread (tts.py:163-178 and the speech call below it)
    wPc,            \* position of NarrationQueue._worker
    wItem,          \* the item it dequeued
    wFn,            \* player function it is in: "say" (speak_say) | "wav" (_play_wav)
    wExc,           \* exception in flight in the player function
    \* --- thread calling NarrationQueue.interrupt
    iPc,            \* position inside interrupt()
    iActive,        \* a player process was running when interrupt() was called
    \* --- CommandListener thread (main.py:26-55)
    cmdAlive,       \* the listener thread is running
    stopCmd,        \* the operator has entered stop / quit / q
    \* --- history of the run (not program state)
    accepted,       \* ids appended to the queue, in order
    nD,             \* number of ids appended since the last dequeue
    nDI,            \* number appended since the last dequeue or interrupt
    lastSpoken,     \* id of the item last passed to speak(), 0 before that
    calledPaused,   \* ids whose enqueue call found the queue paused
    \* --- WakeWordListener._listen_loop (wakeword.py:60-111)
    wkNow,          \* time.monotonic() at the last frame, in ticks
    cooldown_until, \* local cooldown_until
    wkStop,         \* self._stop of the listener
    fireLog,        \* times at which on_wake was started
    lastScore,      \* wake score of the last frame, in tenths
    lastFired,      \* the last frame started on_wake
    lastInterrupt,  \* the last frame called on_speech_interrupt
    vadRun,         \* history: consecutive chunks scored >= 0.7, ending
                    \* with the last chunk the VAD scored
    wkPc,           \* position of the loop's thread: "read" | "on_wake"
    wakeThreads,    \* on_wake threads started and not yet returned
    listening,      \* those of them that are inside listen_and_transcribe
    capPc,          \* position of the capture loop (main.py:313-354)
    \* --- VoiceInput (stt.py:13-23, 43-103, 124-130)
    listen_timeout, \* self.listen_timeout, in ticks
    silence_timeout,\* self.silence_timeout, in ticks
    vPc,            \* position inside listen_and_transcribe
    vNow,           \* time.monotonic(), in ticks
    deadline,       \* local deadline of record_utterance
    speech_started, \* local speech_started
    silence_start,  \* local silence_start, NoTime for None
    nFrames,        \* len(frames)
    streamOpen,     \* the input stream is started and not yet closed
    vadReset,       \* reset_states() was called on the VAD model
    vResult,        \* what the call returned: "pending" | "None" | "text"
    nTranscribe,    \* number of calls of transcribe()
    heard,          \* history: a frame of the session scored >= the threshold
    lastLoud,       \* history: time of the last such frame, NoTime if none
    vText,          \* what transcribe() returned: "unset" | "empty" | "words"
    \* --- pane branch of the capture loop (main.py:310, 322-330)
    previous_output,\* local previous_output, as its lines
    dPc,            \* "ready": before the poll, "done": after it
    dKind,          \* how the pane changed: "scroll" | "any" | "same" | "failed"
    dPrev,          \* the previous snapshot passed to get_new_output
    dCur,           \* the current snapshot passed to get_new_output
    dKeep,          \* number of trailing lines of dPrev still in dCur
    dApp,           \* the lines appended after them
    dRes,           \* what get_new_output returned
    dRet,           \* the lines of dCur (their indices) it returned
    shown,          \* history: for each line of previous_output, the number
                    \* of polls that returned it
    \* --- clean_terminal_output (clean.py:58-69) applied twice
    clPc,           \* "start" | "once" | "twice"
    clIn,           \* the text x
    clOut,          \* clean(x)
    clOut2,         \* clean(clean(x))
    \* --- the capture source (main.py:280, 302-320; capture.py:30-39)
    captureMode,    \* "unset" | "file" (use_logfile) | "pane"
    fExists,        \* the log file exists
    fSize,          \* its size in bytes
    logfile_pos,    \* local logfile_pos of main()
    fMissing,       \* the last poll found no file
    fFrom,          \* offset at which the last poll began to read
    fRead,          \* number of bytes the last poll read
    fKept,          \* len(new_text) of the last poll, 0 for None
    fClassified,    \* the last poll passed new_text to filter_with_llm
    fHigh,          \* history: end of the highest offset ever read
    \* --- filter_with_llm (llm.py:84-101)
    tPc,            \* "start" | "response" | "returned"
    tTag,           \* the prefix of the response: "Q" | "S" | "none"
    tResult,        \* local result after line 94, as runs of characters
    tOut            \* the narration returned: [text, ellipsis]

\* -------------------------------------------------------- variable groups
cfgvars == <<max_pending, on_question, engine>>

qstate == <<queue, paused, stopEv, qLock>>

mainvars == <<mainPc, mainItem, nextId, clsOut>>

workervars == <<wPc, wItem, wFn, wExc>>

intvars == <<iPc, iActive>>

audiovars == <<cur_proc, proc_running>>

procvars == <<alive, exitCause>>

cmdvars == <<cmdAlive, stopCmd>>

histvars == <<accepted, nD, nDI, lastSpoken, calledPaused>>

qvars == <<cfgvars, qstate, mainvars, workervars, intvars, audiovars,
           procvars, cmdvars, histvars>>

wkvars == <<wkNow, cooldown_until, wkStop, fireLog, lastScore, lastFired,
            lastInterrupt, vadRun, wkPc, wakeThreads, listening, capPc>>

vivars == <<listen_timeout, silence_timeout, vPc, vNow, deadline,
            speech_started, silence_start, nFrames, streamOpen, vadReset,
            vResult, nTranscribe, heard, lastLoud, vText>>

\* the state outside the narration pipeline
dvars == <<previous_output, dPc, dKind, dPrev, dCur, dKeep, dApp, dRes,
           dRet, shown>>

clvars == <<clPc, clIn, clOut, clOut2>>

\* the classifier's response and what filter_with_llm makes of it
tvars == <<tPc, tTag, tResult, tOut>>

\* the capture source of the run and the log-file reader
fvars == <<captureMode, fExists, fSize, logfile_pos, fMissing, fFrom, fRead,
           fKept, fClassified, fHigh>>

offqueue == <<wkvars, vivars, dvars, clvars, fvars, tvars>>

vars == <<qvars, wkvars, vivars, dvars, clvars, fvars, tvars>>

NoTime == 0 - 1

NoItem == [id |-> 0, q |-> FALSE]

\* ---------------------------------------------------------------- helpers
Ids(s) == {s[i].id : i \in 1..Len(s)}

IdSeq(s) == [i \in 1..Len(s) |-> s[i].id]

\* s[-n:], and s[:n] in its place
LastN_First(s, n) == IF Len(s) <= n THEN s ELSE SubSeq(s, 1, n)

LastN(s, n) == IF Len(s) <= n THEN s ELSE SubSeq(s, Len(s) - n + 1, Len(s))

RemoveAt(s, k) == [i \in 1..(Len(s) - 1) |-> IF i < k THEN s[i] ELSE s[i + 1]]

\* --------------------------------------------------- NarrationQueue.enqueue
\* tts.py:145  `if self.paused.is_set(): return`
EnqueueDrops_Never(p) == FALSE

EnqueueDrops(p) == p

\* tts.py:149-152  drop the oldest when len >= max_pending, then append
EnqueueResult_NoEvict(q, item, n) == Append(q, item)

EnqueueResult_EvictNewest(q, item, n) ==
    IF Len(q) >= n THEN Append(SubSeq(q, 1, Len(q) - 1), item)
    ELSE Append(q, item)

EnqueueResult(q, item, n) ==
    IF Len(q) >= n THEN Append(Tail(q), item) ELSE Append(q, item)

\* tts.py:171  self._queue.popleft(): index of the item the consumer takes
DequeueIndex_Newest(q) == Len(q)

DequeueIndex(q) == 1

\* llm.py:90-93  the urgency tag of the classifier's answer: [Q] makes the
\* item a question.  The answers of a run alternate: status, question, ...
IsQuestion(id) == id % 2 = 0

\* ------------------------------------------------------------------- Init
QueueInit ==
    /\ queue = <<>>
    /\ paused = FALSE
    /\ stopEv = FALSE
    /\ qLock = "free"
    /\ max_pending \in 1..MaxPendingBound
    /\ on_question = TRUE
    /\ engine = "piper"
    /\ cur_proc = FALSE
    /\ proc_running = FALSE
    /\ alive = TRUE
    /\ exitCause = "none"
    /\ mainPc = "capture"
    /\ mainItem = NoItem
    /\ nextId = 1
    /\ clsOut = "none"
    /\ wPc = "loop"
    /\ wItem = NoItem
    /\ wFn = "none"
    /\ wExc = "none"
    /\ iPc = "idle"
    /\ iActive = FALSE
    /\ cmdAlive = TRUE
    /\ stopCmd = FALSE
    /\ accepted = <<>>
    /\ nD = 0
    /\ nDI = 0
    /\ lastSpoken = 0
    /\ calledPaused = {}

WakeInit ==
    /\ wkNow = 0
    /\ cooldown_until = 0
    /\ wkStop = FALSE
    /\ fireLog = <<>>
    /\ lastScore = 0
    /\ lastFired = FALSE
    /\ lastInterrupt = FALSE
    /\ vadRun = 0
    /\ wkPc = "read"
    /\ wakeThreads = 0
    /\ listening = 0
    /\ capPc = "capture"

\* main.py:171  voice_input = None: no VoiceInput is constructed yet
VoiceInit ==
    /\ listen_timeout = 0
    /\ silence_timeout = 0
    /\ vPc = "none"
    /\ vNow = 0
    /\ deadline = 0
    /\ speech_started = FALSE
    /\ silence_start = NoTime
    /\ nFrames = 0
    /\ streamOpen = FALSE
    /\ vadReset = FALSE
    /\ vResult = "pending"
    /\ nTranscribe = 0
    /\ heard = FALSE
    /\ lastLoud = NoTime
    /\ vText = "unset"

\* get_new_output returns None
NoneResult == [none |-> TRUE, lines |-> <<>>]

\* main.py:310-311  previous_output = "" before the first iteration
DeltaInit ==
    /\ previous_output = <<>>
    /\ dPc = "start"
    /\ dKind = "none"
    /\ dPrev = <<>>
    /\ dCur = <<>>
    /\ dKeep = 0
    /\ dApp = <<>>
    /\ dRes = NoneResult
    /\ dRet = {}
    /\ shown = <<>>

\* no text has been given to the noise filter yet
CleanInit ==
    /\ clPc = "start"
    /\ clIn = <<>>
    /\ clOut = <<>>
    /\ clOut2 = <<>>

\* main.py:280-310  before the capture loop: the source is not chosen yet
\* and no log file has been written
FileInit ==
    /\ captureMode = "unset"
    /\ fExists = FALSE
    /\ fSize = 0
    /\ logfile_pos = 0
    /\ fMissing = FALSE
    /\ fFrom = 0
    /\ fRead = 0
    /\ fKept = 0
    /\ fClassified = FALSE
    /\ fHigh = 0

\* no response has been received yet
TruncInit ==
    /\ tPc = "start"
    /\ tTag = "none"
    /\ tResult = <<>>
    /\ tOut = [text |-> <<>>, ellipsis |-> FALSE]

Init ==
    /\ QueueInit /\ WakeInit /\ VoiceInit /\ DeltaInit /\ CleanInit
    /\ FileInit /\ TruncInit

\* the same with the queue bound fixed, for the specifications of the parts
\* that do not use the queue
OneQueueInit == Init /\ max_pending = 1

\* The process ends: its threads, its memory and the player it started are
\* gone.  What is left is the history of the run and the cause of the exit.
ProcessExit(cause) ==
    /\ alive' = FALSE
    /\ exitCause' = cause
    /\ queue' = <<>>
    /\ paused' = FALSE
    /\ qLock' = "free"
    /\ mainPc' = "gone"
    /\ mainItem' = NoItem
    /\ clsOut' = "none"
    /\ wPc' = "gone"
    /\ wItem' = NoItem
    /\ wFn' = "none"
    /\ wExc' = "none"
    /\ iPc' = "gone"
    /\ iActive' = FALSE
    /\ cmdAlive' = FALSE
    /\ cur_proc' = FALSE
    /\ proc_running' = FALSE
    /\ nD' = 0
    /\ nDI' = 0
    /\ UNCHANGED <<cfgvars, nextId, stopCmd, accepted, lastSpoken, calledPaused,
                   offqueue>>

\* ------------------------------------------- main thread: the capture loop
\* main.py:316-336  one capture that yields nothing to classify: an empty or
\* failed capture (capture.py:20-21, 26-27, 38-39), an unchanged pane
\* (main.py:325-327), no delta or a delta shorter than 10 characters.
CaptureNothing ==
    /\ alive /\ mainPc = "capture"
    /\ mainPc' = "sleep"
    /\ UNCHANGED <<mainItem, nextId, clsOut, cfgvars, qstate, workervars, intvars,
                   audiovars, procvars, cmdvars, histvars, offqueue>>

\* capture.py:23-25  pane mode, tmux is not installed: capture_pane calls
\* sys.exit(1) in the main thread; main.py:356 catches KeyboardInterrupt
\* only, so the process ends with status 1.
CaptureTmuxMissing ==
    /\ alive /\ mainPc = "capture"
    /\ stopEv' = stopEv
    /\ ProcessExit("tmux_missing")

\* main.py:316-336  a capture with new text of 10 characters or more
CaptureNew ==
    /\ alive /\ mainPc = "capture"
    /\ mainPc' = "classify"
    /\ UNCHANGED <<mainItem, nextId, clsOut, cfgvars, qstate, workervars, intvars,
                   audiovars, procvars, cmdvars, histvars, offqueue>>

\* outcomes of the classification request (llm.py:70-84)
ClassifierFailures ==
    {"connection_error", "timeout", "http_error", "malformed_body"}

ClassifierOutcomes == ClassifierFailures \cup {"skip", "narration"}

\* llm.py:69-114  what filter_with_llm does with an outcome: "item" it
\* returns (narration, is_question), "None" it returns None, "raise" an
\* exception leaves it.
\*   connection_error  requests.post raises ConnectionError, caught at 103
\*   timeout           requests.post raises Timeout, caught at 109
\*   http_error        raise_for_status raises HTTPError, caught at 112
\*   malformed_body    resp.json() raises ValueError, or .get / .strip raise
\*                     AttributeError on a body of another shape, caught at 112
\*   skip              empty answer or SKIP: return None at 86-87
FilterResult_NoCatchAll(out) ==
    CASE out = "narration" -> "item"
      [] out \in {"http_error", "malformed_body"} -> "raise"
      [] OTHER -> "None"

FilterResult(out) ==
    CASE out = "narration" -> "item"
      [] out = "skip" -> "None"
      [] out = "connection_error" -> "None"
      [] out = "timeout" -> "None"
      [] out = "http_error" -> "None"
      [] out = "malformed_body" -> "None"

\* main.py:339-352 with llm.py:69-114  the request yields no narration:
\* filter_with_llm returns None and the loop sleeps; an exception leaving
\* filter_with_llm would leave main() (main.py:356 catches KeyboardInterrupt
\* only) and end the process.
ClassifyNone ==
    /\ alive /\ mainPc = "classify"
    /\ \E out \in ClassifierOutcomes :
         /\ FilterResult(out) # "item"
         /\ IF FilterResult(out) = "raise"
              THEN stopEv' = stopEv /\ ProcessExit("classifier_error")
              ELSE /\ mainPc' = "sleep"
                   /\ clsOut' = IF out \in ClassifierFailures THEN "failed"
                                ELSE "none"
                   /\ UNCHANGED <<mainItem, nextId, cfgvars, qstate,
                                  workervars, intvars, audiovars, procvars,
                                  cmdvars, histvars, offqueue>>

\* main.py:345-350  filter_with_llm returns (narration, is_question) and the
\* loop calls narration_queue.enqueue(narration, is_question)
ClassifySpeak ==
    /\ alive /\ mainPc = "classify"
    /\ \E out \in ClassifierOutcomes : FilterResult(out) = "item"
    /\ clsOut' = "answered"
    /\ nextId <= MaxItems
    /\ mainItem' = [id |-> nextId, q |-> IsQuestion(nextId)]
    /\ nextId' = nextId + 1
    /\ mainPc' = "enq_check"
    /\ UNCHANGED <<cfgvars, qstate, workervars, intvars, audiovars, procvars,
                   cmdvars, histvars, offqueue>>

\* tts.py:145-146  the paused check of enqueue, made without the lock
EnqueueCheck ==
    /\ alive /\ mainPc = "enq_check"
    /\ calledPaused' = IF paused THEN calledPaused \cup {mainItem.id}
                       ELSE calledPaused
    /\ IF EnqueueDrops(paused)
         THEN mainPc' = "sleep" /\ mainItem' = NoItem
         ELSE mainPc' = "enq_lock" /\ mainItem' = mainItem
    /\ clsOut' = "none"
    /\ UNCHANGED <<nextId, cfgvars, qstate, workervars, intvars, audiovars,
                   procvars, cmdvars, accepted, nD, nDI, lastSpoken,
                   offqueue>>

\* tts.py:147, 156, 169  `with self._lock:` blocks until the lock is free
\* and takes it
CanAcquire_Always(holder) == TRUE

CanAcquire(holder) == holder = "free"

\* tts.py:152, 157, 171  the end of the with block releases the lock
Released_Kept(holder) == holder

Released(holder) == "free"

\* tts.py:147  with self._lock: enqueue takes the queue lock
EnqueueLock ==
    /\ alive /\ mainPc = "enq_lock"
    /\ CanAcquire(qLock)
    /\ qLock' = "main"
    /\ mainPc' = "enq_body"
    /\ UNCHANGED <<queue, paused, stopEv, mainItem, nextId, clsOut, cfgvars,
                   workervars, intvars, audiovars, procvars, cmdvars,
                   histvars, offqueue>>

\* tts.py:148-152  inside the with block: evict when full, append; the
\* lock is released at the end of the block
EnqueueBody ==
    /\ alive /\ mainPc = "enq_body"
    /\ queue' = EnqueueResult(queue, mainItem, max_pending)
    /\ qLock' = Released(qLock)
    /\ mainPc' = "sleep"
    /\ mainItem' = NoItem
    /\ accepted' = Append(accepted, mainItem.id)
    /\ nD' = nD + 1
    /\ nDI' = nDI + 1
    /\ UNCHANGED <<paused, stopEv, nextId, clsOut, cfgvars, workervars,
                   intvars, audiovars, procvars, cmdvars, lastSpoken,
                   calledPaused, offqueue>>

\* main.py:326, 335, 354  time.sleep(args.interval), then the next iteration
Sleep ==
    /\ alive /\ mainPc = "sleep"
    /\ mainPc' = "capture"
    /\ clsOut' = "none"
    /\ UNCHANGED <<mainItem, nextId, cfgvars, qstate, workervars, intvars,
                   audiovars, procvars, cmdvars, histvars, offqueue>>

\* main.py:356-360  Ctrl-C: KeyboardInterrupt in the main thread, which calls
\* narration_queue.stop() and returns from main(); the daemon threads end
\* with the process.
KeyboardInterrupt ==
    /\ alive
    /\ stopEv' = TRUE
    /\ ProcessExit("ctrl_c")

MainStep ==
    \/ CaptureNothing
    \/ CaptureTmuxMissing
    \/ CaptureNew
    \/ ClassifyNone
    \/ ClassifySpeak
    \/ EnqueueCheck
    \/ EnqueueLock
    \/ EnqueueBody
    \/ Sleep
    \/ KeyboardInterrupt

\* ------------------------------------ consumer thread: NarrationQueue._worker
\* tts.py:164  while not self._stop.is_set():
WorkerLoop ==
    /\ alive /\ wPc = "loop"
    /\ wPc' = IF stopEv THEN "exited" ELSE "chk_pause"
    /\ UNCHANGED <<wItem, wFn, wExc, cfgvars, qstate, mainvars, intvars,
                   audiovars, procvars, cmdvars, histvars, offqueue>>

\* tts.py:165-168  if self.paused.is_set(): sleep(0.2); continue
WorkerCheckPaused ==
    /\ alive /\ wPc = "chk_pause"
    /\ wPc' = IF paused THEN "loop" ELSE "lock"
    /\ UNCHANGED <<wItem, wFn, wExc, cfgvars, qstate, mainvars, intvars,
                   audiovars, procvars, cmdvars, histvars, offqueue>>

\* tts.py:169  with self._lock: the consumer takes the queue lock
WorkerLock ==
    /\ alive /\ wPc = "lock"
    /\ CanAcquire(qLock)
    /\ qLock' = "worker"
    /\ wPc' = "dequeue"
    /\ UNCHANGED <<queue, paused, stopEv, wItem, wFn, wExc, cfgvars,
                   mainvars, intvars, audiovars, procvars, cmdvars, histvars,
                   offqueue>>

\* tts.py:170-173, 177-178  inside the with block: popleft when something
\* is pending; the lock is released at the end of the block, before speak();
\* with nothing pending the worker sleeps 0.1 s and loops
WorkerDequeue ==
    /\ alive /\ wPc = "dequeue"
    /\ qLock' = Released(qLock)
    /\ IF queue # <<>>
         THEN /\ wItem' = queue[DequeueIndex(queue)]
              /\ queue' = RemoveAt(queue, DequeueIndex(queue))
              /\ wPc' = "speak"
              /\ nD' = 0
              /\ nDI' = 0
         ELSE /\ wPc' = "loop"
              /\ UNCHANGED <<queue, wItem, nD, nDI>>
    /\ UNCHANGED <<paused, stopEv, wFn, wExc, cfgvars, mainvars, intvars,
                   audiovars, procvars, cmdvars, accepted, lastSpoken,
                   calledPaused, offqueue>>

\* tts.py:174 and 114-119  speak(text, voice, engine): dispatch on the engine
WorkerSpeak ==
    /\ alive /\ wPc = "speak"
    /\ lastSpoken' = wItem.id
    /\ IF engine = "piper"
         THEN wPc' = "synth" /\ wFn' = "wav"
         ELSE wPc' = "popen" /\ wFn' = "say"
    /\ UNCHANGED <<wItem, wExc, cfgvars, qstate, mainvars, intvars, audiovars,
                   procvars, cmdvars, accepted, nD, nDI, calledPaused,
                   offqueue>>

\* tts.py:99-111  speak_piper: the piper run.  "ok": _play_wav follows (106);
\* "fnf": piper is not installed, speak_say is the fallback (107-109);
\* "timeout": the speech call returns without playing (110-111).
WorkerSynth ==
    /\ alive /\ wPc = "synth"
    /\ \E out \in {"ok", "fnf", "timeout"} :
         /\ wPc' = IF out = "timeout" THEN "after_speak" ELSE "popen"
         /\ wFn' = IF out = "fnf" THEN "say" ELSE "wav"
    /\ UNCHANGED <<wItem, wExc, cfgvars, qstate, mainvars, intvars, audiovars,
                   procvars, cmdvars, histvars, offqueue>>

\* tts.py:43-44, 62-63  with _audio_lock: _current_audio_proc = Popen(...).
\* Popen raises FileNotFoundError when the player is not installed.
WorkerPopen ==
    /\ alive /\ wPc = "popen"
    /\ \/ /\ cur_proc' = TRUE
          /\ proc_running' = TRUE
          /\ wPc' = "wait_read"
          /\ wExc' = "none"
       \/ /\ wExc' = "fnf"
          /\ wPc' = "finally"
          /\ UNCHANGED <<cur_proc, proc_running>>
    /\ UNCHANGED <<wItem, wFn, cfgvars, qstate, mainvars, intvars, procvars,
                   cmdvars, histvars, offqueue>>

\* tts.py:45, 64  `_current_audio_proc.wait(timeout=60)`: the global is read
\* again, without the lock.  When interrupt_audio has set it to None in
\* between, the attribute access raises AttributeError.
WorkerWaitRead ==
    /\ alive /\ wPc = "wait_read"
    /\ IF cur_proc
         THEN wPc' = "waiting" /\ wExc' = "none"
         ELSE wPc' = "finally" /\ wExc' = "attr"
    /\ UNCHANGED <<wItem, wFn, cfgvars, qstate, mainvars, intvars, audiovars,
                   procvars, cmdvars, histvars, offqueue>>

\* tts.py:45, 64  Popen.wait() blocks the speech call until the player
\* process has exited (by itself or terminated)
WaitReturns_Early(running) == TRUE

WaitReturns(running) == ~running

\* tts.py:45, 64  wait() returns: the player exited or was terminated
WorkerWaitDone ==
    /\ alive /\ wPc = "waiting"
    /\ WaitReturns(proc_running)
    /\ wPc' = "finally"
    /\ UNCHANGED <<wItem, wFn, wExc, cfgvars, qstate, mainvars, intvars,
                   audiovars, procvars, cmdvars, histvars, offqueue>>

\* tts.py:48-51, 87-90  wait() raises TimeoutExpired after 60 s; the handler:
\* with _audio_lock: if _current_audio_proc: terminate()
WorkerWaitTimeout ==
    /\ alive /\ wPc = "waiting"
    /\ proc_running
    /\ proc_running' = IF cur_proc THEN FALSE ELSE proc_running
    /\ wPc' = "finally"
    /\ UNCHANGED <<wItem, wFn, wExc, cur_proc, cfgvars, qstate, mainvars,
                   intvars, procvars, cmdvars, histvars, offqueue>>

\* where the speech call goes once the finally clause has run:
\*   FileNotFoundError in speak_say is caught there (46-47): speak returns;
\*   FileNotFoundError in _play_wav (macOS branch, 62-64) leaves _play_wav
\*     and is caught by speak_piper (107-109), which calls speak_say;
\*   AttributeError is caught by nothing: it leaves speak() and _worker, and
\*     the consumer thread ends.
AfterFinally(exc, fn) ==
    CASE exc = "attr" -> "crashed"
      [] exc = "fnf" /\ fn = "wav" -> "popen"
      [] OTHER -> "after_speak"

\* tts.py:52-54, 91-93  finally: with _audio_lock: _current_audio_proc = None
WorkerFinally ==
    /\ alive /\ wPc = "finally"
    /\ cur_proc' = FALSE
    /\ wExc' = "none"
    /\ wPc' = AfterFinally(wExc, wFn)
    /\ wFn' = IF wExc = "fnf" /\ wFn = "wav" THEN "say" ELSE wFn
    /\ UNCHANGED <<wItem, proc_running, cfgvars, qstate, mainvars, intvars,
                   procvars, cmdvars, histvars, offqueue>>

\* tts.py:175-176  if is_question and self.on_question_spoken: call it;
\* otherwise the next iteration (item = None at 168)
WorkerAfterSpeak ==
    /\ alive /\ wPc = "after_speak"
    /\ IF wItem.q /\ on_question
         THEN wPc' = "callback" /\ wItem' = wItem
         ELSE wPc' = "loop" /\ wItem' = NoItem
    /\ wFn' = "none"
    /\ UNCHANGED <<wExc, cfgvars, qstate, mainvars, intvars, audiovars,
                   procvars, cmdvars, histvars, offqueue>>

\* tts.py:176  self.on_question_spoken(text) is called with no try around
\* it, and _worker (163-178) has none either: an exception raised by the
\* callback ends the consumer thread
AfterCallback_Caught(raised) == "loop"

AfterCallback(raised) == IF raised THEN "crashed" ELSE "loop"

\* tts.py:176 with main.py:186-198  on_question_spoken(text) runs the voice
\* input in the consumer thread; it returns, or it raises: no handler
\* stands between stt.py:32-37 (torch.hub.load of the VAD model, reached by
\* record_utterance at stt.py:53) and the consumer's loop.  The callback has
\* been invoked for the item either way.
WorkerCallback ==
    /\ alive /\ wPc = "callback"
    /\ \E raised \in BOOLEAN : wPc' = AfterCallback(raised)
    /\ wItem' = NoItem
    /\ UNCHANGED <<wFn, wExc, cfgvars, qstate, mainvars, intvars, audiovars,
                   procvars, cmdvars, histvars, offqueue>>

\* the player process exits by itself (playback complete)
PlayerExits ==
    /\ alive /\ proc_running
    /\ proc_running' = FALSE
    /\ UNCHANGED <<cur_proc, cfgvars, qstate, mainvars, workervars, intvars,
                   procvars, cmdvars, histvars, offqueue>>

WorkerStep ==
    \/ WorkerLoop
    \/ WorkerCheckPaused
    \/ WorkerLock
    \/ WorkerDequeue
    \/ WorkerSpeak
    \/ WorkerSynth
    \/ WorkerPopen
    \/ WorkerWaitRead
    \/ WorkerWaitDone
    \/ WorkerWaitTimeout
    \/ WorkerFinally
    \/ WorkerAfterSpeak
    \/ WorkerCallback

\* ------------------------------------------------ NarrationQueue.interrupt
\* main.py:255, 266-268 with tts.py:156  interrupt() is called from the
\* hot-key listener thread or from the wake-word loop and takes the queue
\* lock (a call that finds the lock taken waits for it, which is a call made
\* later)
InterruptCall ==
    /\ alive /\ iPc = "idle"
    /\ CanAcquire(qLock)
    /\ qLock' = "interrupt"
    /\ iPc' = "clear"
    /\ iActive' = proc_running
    /\ UNCHANGED <<queue, paused, stopEv, cfgvars, mainvars, workervars,
                   audiovars, procvars, cmdvars, histvars, offqueue>>

\* tts.py:157  inside the with block: self._queue.clear(); the lock is
\* released at the end of the block
InterruptClear ==
    /\ alive /\ iPc = "clear"
    /\ queue' = <<>>
    /\ qLock' = Released(qLock)
    /\ iPc' = "audio"
    /\ nDI' = 0
    /\ UNCHANGED <<paused, stopEv, iActive, cfgvars, mainvars, workervars,
                   audiovars, procvars, cmdvars, accepted, nD, lastSpoken,
                   calledPaused, offqueue>>

\* tts.py:158, 33-36  interrupt_audio(): with _audio_lock: if the handle is
\* set and its process still runs, terminate it and set the handle to None;
\* then interrupt_audio and interrupt return
InterruptAudio ==
    /\ alive /\ iPc = "audio"
    /\ IF cur_proc /\ proc_running
         THEN proc_running' = FALSE /\ cur_proc' = FALSE
         ELSE UNCHANGED <<proc_running, cur_proc>>
    /\ iPc' = "idle"
    /\ iActive' = FALSE
    /\ UNCHANGED <<cfgvars, qstate, mainvars, workervars, procvars, cmdvars,
                   histvars, offqueue>>

InterruptStep ==
    \/ InterruptCall
    \/ InterruptClear
    \/ InterruptAudio

\* ------------------------------------------- CommandListener._listener
\* main.py:32-34  pause / p
CmdPause ==
    /\ alive /\ cmdAlive
    /\ paused' = TRUE
    /\ UNCHANGED <<queue, stopEv, qLock, cfgvars, mainvars, workervars, intvars,
                   audiovars, procvars, cmdvars, accepted, nD, nDI,
                   lastSpoken, calledPaused, offqueue>>

\* main.py:35-37  resume / r
CmdResume ==
    /\ alive /\ cmdAlive
    /\ paused' = FALSE
    /\ UNCHANGED <<queue, stopEv, qLock, cfgvars, mainvars, workervars, intvars,
                   audiovars, procvars, cmdvars, accepted, nD, nDI,
                   lastSpoken, calledPaused, offqueue>>

\* main.py:38-41  stop / quit / q: self.queue.stop() (tts.py:160-161), then
\* sys.exit(0).  The listener runs in its own thread (main.py:23): there
\* sys.exit raises SystemExit in that thread only, which ends the thread and
\* leaves the process running.
CmdStop ==
    /\ alive /\ cmdAlive
    /\ stopEv' = TRUE
    /\ stopCmd' = TRUE
    /\ cmdAlive' = FALSE
    /\ UNCHANGED <<queue, paused, qLock, cfgvars, mainvars, workervars, intvars,
                   audiovars, procvars, accepted, nD, nDI, lastSpoken,
                   calledPaused, offqueue>>

\* main.py:28-31  input() raises EOFError: the listener leaves its loop
CmdEOF ==
    /\ alive /\ cmdAlive
    /\ cmdAlive' = FALSE
    /\ UNCHANGED <<stopCmd, cfgvars, qstate, mainvars, workervars, intvars,
                   audiovars, procvars, histvars, offqueue>>

CmdStep ==
    \/ CmdPause
    \/ CmdResume
    \/ CmdStop
    \/ CmdEOF

\* ------------------------------------------------------------ specification
Next ==
    \/ MainStep
    \/ WorkerStep
    \/ PlayerExits
    \/ InterruptStep
    \/ CmdStep

Spec == Init /\ [][Next]_vars

\* The same with the scheduling the threads can count on: the consumer
\* thread keeps running (tts.py:163-178), taking the queue lock when it is
\* free again and again (strong fairness of its steps), and so does an
\* enqueue call that waits for the lock (tts.py:147); a thread inside a
\* with block leaves it (148-152, 157) and interrupt_audio returns (33-36);
\* the player process ends (playback is finite).  Nothing is assumed of the
\* capture loop, of the operator or of the callers of interrupt.  The
\* queue bound is 1.
LiveSpec ==
    /\ OneQueueInit /\ [][Next]_vars
    /\ SF_vars(WorkerStep)
    /\ SF_vars(EnqueueLock)
    /\ WF_vars(EnqueueBody)
    /\ WF_vars(InterruptClear)
    /\ WF_vars(InterruptAudio)
    /\ WF_vars(PlayerExits)

\* =========================================================================
\* WakeWordListener._listen_loop (wakeword.py:60-111), with on_wake and
\* on_speech_interrupt set as main.py:252-256 sets them.
\* =========================================================================
\* scores and confidences a frame can have, in tenths, on both sides of the
\* thresholds
Scores == {0, 4, 5, 9}

Confidences == {2, 7}

\* wakeword.py:101  range(0, len(audio_f32) - 511, 512): the chunk starts
VadChunkStarts ==
    {i \in 0..(WakeChunkSamples - 512) : i % VadChunkSamples = 0}

\* wakeword.py:88  if score >= self.threshold and now >= cooldown_until
WakeFires_NoCooldown(score, now, cd) == score >= WakeThreshold

WakeFires(score, now, cd) == score >= WakeThreshold /\ now >= cd

\* wakeword.py:89  cooldown_until = now + 3.0
NextCooldown(now) == now + WakeCooldown

\* wakeword.py:101-106  the interrupt callback is called at the first chunk
\* of the frame whose confidence is at least 0.7
VadInterrupts(conf) == \E i \in VadChunkStarts : conf[i] >= VadInterruptThreshold

\* wakeword.py:101-106  the chunks of a frame are scored in order up to the
\* first one at or above 0.7 (break): the run of such chunks goes on when
\* that is the frame's first chunk, starts anew when lower chunks came
\* before it, and is over when the frame has none
FirstLoudChunk(conf) ==
    CHOOSE i \in VadChunkStarts :
        /\ conf[i] >= VadInterruptThreshold
        /\ \A j \in VadChunkStarts : conf[j] >= VadInterruptThreshold => i <= j

RunAfter(run, conf) ==
    IF ~VadInterrupts(conf) THEN 0
    ELSE IF FirstLoudChunk(conf) = 0 THEN run + 1
    ELSE 1

\* wakeword.py:91-93  threading.Thread(target=self.on_wake,
\* daemon=True).start() returns as soon as the thread is started: the loop's
\* thread stays in the loop.  Calling self.on_wake() inline would leave it
\* inside the callback instead.
AfterOnWake_Inline(pc) == "on_wake"

AfterOnWake(pc) == pc

\* wakeword.py:79-106  one iteration of the loop: read a frame, score it at
\* time `now`, start on_wake in its own thread when it fires, then the VAD
\* check of the frame's chunks
WakeFrame ==
    /\ ~wkStop
    /\ wkPc = "read"
    /\ \E dt \in 0..MaxFrameStep, score \in Scores,
          conf \in [VadChunkStarts -> Confidences] :
         /\ wkNow + dt <= MaxTime
         /\ wkNow' = wkNow + dt
         /\ lastScore' = score
         /\ lastFired' = WakeFires(score, wkNow + dt, cooldown_until)
         /\ IF WakeFires(score, wkNow + dt, cooldown_until)
              THEN /\ cooldown_until' = NextCooldown(wkNow + dt)
                   /\ fireLog' = Append(fireLog, wkNow + dt)
                   /\ wakeThreads' = wakeThreads + 1
                   /\ wkPc' = AfterOnWake(wkPc)
              ELSE UNCHANGED <<cooldown_until, fireLog, wakeThreads, wkPc>>
         /\ lastInterrupt' = VadInterrupts(conf)
         /\ RunAfter(vadRun, conf) <= MaxVadRun
         /\ vadRun' = RunAfter(vadRun, conf)
    /\ UNCHANGED <<wkStop, listening, capPc, qvars, vivars, dvars, clvars,
                   fvars, tvars>>

\* main.py:187-189  an on_wake thread, running _do_voice_input (main.py:200,
\* 254), has started the activation cue and calls
\* voice_input.listen_and_transcribe(); nothing is tested or locked before
\* the call
WakeCallbackListens ==
    /\ listening < wakeThreads
    /\ listening' = listening + 1
    /\ UNCHANGED <<wkNow, cooldown_until, wkStop, fireLog, lastScore,
                   lastFired, lastInterrupt, vadRun, wkPc, wakeThreads, capPc,
                   qvars, vivars, dvars, clvars, fvars, tvars>>

\* main.py:189-195  listen_and_transcribe returns in an on_wake thread: the
\* voice session is over, the deactivation cue is played and the text, if
\* any, is sent.  The thread ends.
WakeCallbackReturns ==
    /\ listening > 0
    /\ listening' = listening - 1
    /\ wakeThreads' = wakeThreads - 1
    /\ UNCHANGED <<wkNow, cooldown_until, wkStop, fireLog, lastScore,
                   lastFired, lastInterrupt, vadRun, wkPc, capPc, qvars,
                   vivars, dvars, clvars, fvars, tvars>>

\* main.py:313-354  the capture loop on the main thread: capture (316-332),
\* then sleep when there is nothing new (325-327, 334-336) or filter_with_llm
\* (339-343); after the filter, enqueue (350) or nothing for SKIP (345-352);
\* then sleep (354) and the next capture.  None of its calls is a call of
\* speak() or of the voice trigger.
CaptureFollowers(pc) ==
    CASE pc = "capture" -> {"sleep", "filter"}
      [] pc = "filter" -> {"enqueue", "sleep"}
      [] pc = "enqueue" -> {"sleep"}
      [] pc = "sleep" -> {"capture"}

CaptureStep ==
    /\ capPc \in {"capture", "filter", "enqueue", "sleep"}
    /\ capPc' \in CaptureFollowers(capPc)
    /\ UNCHANGED <<wkNow, cooldown_until, wkStop, fireLog, lastScore,
                   lastFired, lastInterrupt, vadRun, wkPc, wakeThreads,
                   listening, qvars, vivars, dvars, clvars, fvars, tvars>>

\* wakeword.py:54-58, 79  stop(): the loop ends at its next test of _stop
WakeStop ==
    /\ ~wkStop
    /\ wkStop' = TRUE
    /\ UNCHANGED <<wkNow, cooldown_until, fireLog, lastScore, lastFired,
                   lastInterrupt, vadRun, wkPc, wakeThreads, listening,
                   capPc, qvars, vivars, dvars, clvars, fvars, tvars>>

WakeNext ==
    \/ WakeFrame
    \/ WakeStop
    \/ WakeCallbackListens
    \/ WakeCallbackReturns
    \/ CaptureStep

WakeSpec == OneQueueInit /\ [][WakeNext]_vars

\* =========================================================================
\* get_new_output (capture.py:42-79) and the pane branch of the capture loop
\* that applies it (main.py:322-330).
\* =========================================================================
\* the lines a pane shows: a line of text, an indented line of text, a
\* blank line
Lines == {"a", " b", ""}

Snapshots(n) == UNION {[1..k -> Lines] : k \in 0..n}

\* output of 11 characters, enough for the classifier (main.py:334): a
\* line of text, a blank line and three indented lines
LongAppend == <<"a", "", " b", " b", " b">>

Appended == (Snapshots(MaxAppend) \ {<<>>}) \cup {LongAppend}

\* panes of MaxLongLines lines, more than the fallback tail: indented lines,
\* with one line of text followed by a blank line at any place, or without
\* them
LongSnapshots ==
    {[i \in 1..MaxLongLines |->
         IF i = j THEN "a" ELSE IF i = j + 1 THEN "" ELSE " b"] :
       j \in 0..MaxLongLines}

\* str.strip() on the joined text: what it does to the first and to the last
\* line that is left (no line of Lines ends in white space)
LStrip(line) == IF line = " b" THEN "b" ELSE line

RStrip(line) == line

NonBlank(lines) == {i \in 1..Len(lines) : lines[i] # ""}

Min(a, b) == IF a <= b THEN a ELSE b

SetMax(S) == CHOOSE x \in S : \A y \in S : y <= x

SetMin(S) == CHOOSE x \in S : \A y \in S : x <= y

\* capture.py:65, 72, 78  "\n".join(new_lines).strip(): leading and trailing
\* blank lines go, the first line loses its leading white space and the last
\* its trailing white space
JoinStrip(lines) ==
    IF NonBlank(lines) = {} THEN <<>>
    ELSE LET f == SetMin(NonBlank(lines))
             l == SetMax(NonBlank(lines))
             mid == SubSeq(lines, f, l)
         IN [i \in 1..Len(mid) |->
                IF i = 1 /\ i = Len(mid) THEN RStrip(LStrip(mid[i]))
                ELSE IF i = 1 THEN LStrip(mid[i])
                ELSE IF i = Len(mid) THEN RStrip(mid[i])
                ELSE mid[i]]

\* capture.py:66, 73, 79  return new_text if new_text else None
TextOrNone(lines) ==
    IF JoinStrip(lines) = <<>> THEN NoneResult
    ELSE [none |-> FALSE, lines |-> JoinStrip(lines)]

\* capture.py:55  for anchor_size in [5, 3, 2, 1]
AnchorSizes_OnlyFive == <<5>>

AnchorSizes == <<5, 3, 2, 1>>

NoMatch == 0 - 1

\* capture.py:62-63  the 0-based indices i at which the anchor occurs in
\* cur_lines; range(len(cur_lines) - anchor_size, -1, -1) tries the largest
\* first
MatchIndices(cur, anchor) ==
    {i \in 0..(Len(cur) - Len(anchor)) :
        SubSeq(cur, i + 1, i + Len(anchor)) = anchor}

LatestMatch_Earliest(cur, anchor) ==
    IF MatchIndices(cur, anchor) = {} THEN NoMatch
    ELSE SetMin(MatchIndices(cur, anchor))

LatestMatch(cur, anchor) ==
    IF MatchIndices(cur, anchor) = {} THEN NoMatch
    ELSE SetMax(MatchIndices(cur, anchor))

\* capture.py:55-64  the index after the anchor of the first anchor size that
\* matches, trying AnchorSizes[k], AnchorSizes[k+1], ...; NoMatch if none does
RECURSIVE AnchorEnd(_, _, _)
AnchorEnd(cur, prev, k) ==
    IF k > Len(AnchorSizes) THEN NoMatch
    ELSE IF Len(prev) < AnchorSizes[k] THEN AnchorEnd(cur, prev, k + 1)
    ELSE IF LatestMatch(cur, LastN(prev, AnchorSizes[k])) # NoMatch
           THEN LatestMatch(cur, LastN(prev, AnchorSizes[k])) + AnchorSizes[k]
    ELSE AnchorEnd(cur, prev, k + 1)

\* capture.py:68-79  no anchor matched: the lines in excess of the previous
\* snapshot, else the last 20 lines
Fallback_TailOnly(current, previous) ==
    TextOrNone(LastN(current, Min(FallbackTail, Len(current))))

Fallback(current, previous) ==
    IF Len(current) > Len(previous)
      THEN TextOrNone(SubSeq(current, Len(previous) + 1, Len(current)))
      ELSE TextOrNone(LastN(current, Min(FallbackTail, Len(current))))

\* capture.py:44  if not previous
NoPrevious_Never(previous) == FALSE

NoPrevious(previous) == previous = <<>>

\* capture.py:51  if prev_lines == cur_lines
SameLines(previous, current) == previous = current

get_new_output_FallbackOnly(current, previous) ==
    IF NoPrevious(previous) THEN NoneResult
    ELSE Fallback(current, previous)

\* capture.py:42-79
get_new_output(current, previous) ==
    IF NoPrevious(previous) THEN NoneResult
    ELSE IF SameLines(previous, current) THEN NoneResult
    ELSE IF AnchorEnd(current, previous, 1) # NoMatch
           THEN TextOrNone(SubSeq(current, AnchorEnd(current, previous, 1) + 1,
                                  Len(current)))
    ELSE Fallback(current, previous)

\* len() of the text whose lines are `lines`, joined by newlines
RECURSIVE TextLen(_)
TextLen(lines) ==
    IF lines = <<>> THEN 0
    ELSE Len(lines[1]) + (IF Len(lines) > 1 THEN 1 ELSE 0)
           + TextLen(Tail(lines))

\* main.py:334-343  the capture loop calls filter_with_llm(new_text) unless
\* new_text is None, empty or shorter than 10 characters
PassedToClassifier(res) ==
    ~res.none /\ TextLen(res.lines) >= MinTextChars

\* clean.py:44, 64-65  a line the noise filter drops: among Lines the blank
\* line, which matches ^\s*$
IsNoiseLine(line) == line = ""

\* main.py:322-330  one iteration of the pane branch with the capture `cur`:
\* new_text = get_new_output(current_output, previous_output);
\* previous_output = current_output
PollWith(cur, kind, keep, app) ==
    /\ dPrev' = previous_output
    /\ dCur' = cur
    /\ dRes' = get_new_output(cur, previous_output)
    /\ previous_output' = cur
    /\ dKind' = kind
    /\ dKeep' = keep
    /\ dApp' = app
    /\ UNCHANGED <<qvars, wkvars, vivars, clvars, fvars, tvars>>

\* main.py:330 in earlier iterations: previous_output is what an earlier poll
\* captured
PollEarlier ==
    /\ dPc = "start"
    /\ dPc' = "ready"
    /\ previous_output' \in Snapshots(MaxLines) \cup LongSnapshots
    /\ UNCHANGED <<dKind, dPrev, dCur, dKeep, dApp, dRes, dRet, shown,
                   qvars, wkvars, vivars, clvars, fvars, tvars>>

\* capture.py:20-21, 26-27  the capture failed or timed out: capture_pane
\* returns ""
PollFailed ==
    /\ dPc \in {"start", "ready"}
    /\ dKind # "failed"
    /\ dPc' = "ready"
    /\ PollWith(<<>>, "failed", 0, <<>>)
    /\ UNCHANGED <<dRet, shown>>

\* the pane scrolled: `drop` leading lines of the previous snapshot are gone
\* and the lines `app` were appended
PollScroll ==
    /\ dPc \in {"start", "ready"}
    /\ dPc' = "done"
    /\ \E drop \in 0..Len(previous_output), app \in Appended :
         PollWith(SubSeq(previous_output, drop + 1, Len(previous_output))
                     \o app,
                  "scroll", Len(previous_output) - drop, app)
    /\ UNCHANGED <<dRet, shown>>

\* the pane was redrawn: any content
PollAny ==
    /\ dPc \in {"start", "ready"}
    /\ dPc' = "done"
    /\ \E cur \in Snapshots(MaxAnyLines) \cup LongSnapshots :
         PollWith(cur, "any", 0, <<>>)
    /\ UNCHANGED <<dRet, shown>>

\* the captured text differs from the previous one (main.py:324-327) but has
\* the same lines, e.g. in its final newline
PollSameLines ==
    /\ dPc \in {"start", "ready"}
    /\ dPc' = "done"
    /\ PollWith(previous_output, "same", Len(previous_output), <<>>)
    /\ UNCHANGED <<dRet, shown>>

DeltaNext ==
    \/ PollEarlier
    \/ PollFailed
    \/ PollScroll
    \/ PollAny
    \/ PollSameLines

DeltaSpec == OneQueueInit /\ [][DeltaNext]_vars

\* =========================================================================
\* The pane branch of the capture loop (main.py:322-330) polling a pane that
\* shows the last WindowLines lines of an append-only stream.
\* =========================================================================
\* the lines of the stream: a line of text, a blank line
StreamLines == {"a", ""}

\* the lines by which the stream has grown between two polls that the pane
\* still shows: lines of text with at most one blank line among them
Bursts ==
    UNION {{[i \in 1..k |-> IF i = j THEN "" ELSE "a"] : j \in 0..k} :
             k \in 1..WindowLines}

\* capture.py:64, 71, 77-78  the 0-based index in cur_lines at which
\* new_lines begins
NewLinesFrom_WholePane(current, previous) == 0

NewLinesFrom(current, previous) ==
    IF AnchorEnd(current, previous, 1) # NoMatch
      THEN AnchorEnd(current, previous, 1)
    ELSE IF Len(current) > Len(previous) THEN Len(previous)
    ELSE Len(current) - Min(FallbackTail, Len(current))

\* capture.py:42-79  the indices (1-based) of the lines of `current` that
\* the text returned by get_new_output is made of: new_lines without the
\* blank lines that strip() takes from its two ends
ReturnedLines(current, previous) ==
    IF NoPrevious(previous) \/ SameLines(previous, current) THEN {}
    ELSE LET from == NewLinesFrom(current, previous)
             text == {i \in (from + 1)..Len(current) : current[i] # ""}
         IN IF text = {} THEN {} ELSE SetMin(text)..SetMax(text)

\* main.py:322-330  one iteration of the pane branch after the stream has
\* grown: the pane shows the last WindowLines lines, of which `app` are new.
\* new_text = get_new_output(current_output, previous_output);
\* previous_output = current_output
StreamPoll ==
    /\ dPc \in {"start", "stream"}
    /\ dPc' = "stream"
    /\ \E app \in Bursts :
         LET cur == LastN(previous_output \o app, WindowLines)
             keep == Len(cur) - Len(app)
             ret == ReturnedLines(cur, previous_output)
         IN /\ dRes' = get_new_output(cur, previous_output)
            /\ previous_output' = cur
            /\ dCur' = cur
            /\ dKeep' = keep
            /\ dRet' = ret
            /\ shown' = [i \in 1..Len(cur) |->
                   (IF i <= keep THEN shown[Len(previous_output) - keep + i]
                    ELSE 0)
                   + (IF i \in ret THEN 1 ELSE 0)]
    /\ dKind' = "scroll"
    /\ UNCHANGED <<dPrev, dApp, qvars, wkvars, vivars, clvars, fvars, tvars>>

StreamNext == StreamPoll

StreamSpec == OneQueueInit /\ [][StreamNext]_vars

\* =========================================================================
\* The capture step of the capture loop (main.py:316-336) in its two modes:
\* capture_from_file (capture.py:30-39) on a log file that is appended to,
\* truncated, removed and created again, and capture_pane (capture.py:11-27)
\* when it fails.
\* =========================================================================
\* capture.py:34  fh.seek(last_pos)
SeekTo_Start(last_pos) == 0

SeekTo(last_pos) == last_pos

\* capture.py:35  fh.read(): the number of bytes from the offset `at` to the
\* end of a file of `size` bytes; none when `at` is at or beyond the end
BytesFrom(at, size) == IF size > at THEN size - at ELSE 0

\* capture.py:38-39  except FileNotFoundError: return "", last_pos
MissingPos_Reset(last_pos) == 0

MissingPos(last_pos) == last_pos

\* main.py:334-343  the text is passed to filter_with_llm unless it is None,
\* empty or shorter than 10 characters
LongEnough(n) == n >= MinTextChars

\* main.py:280, 302-308  use_logfile and the initial cursor: the size of the
\* file, 0 when os.path.getsize raises OSError
CaptureStart ==
    /\ captureMode = "unset"
    /\ captureMode' \in {"file", "pane"}
    /\ logfile_pos' = IF captureMode' = "file" /\ fExists THEN fSize ELSE 0
    /\ fHigh' = logfile_pos'
    /\ UNCHANGED <<fExists, fSize, fMissing, fFrom, fRead, fKept,
                   fClassified, qvars, wkvars, vivars, dvars, clvars, tvars>>

\* the program that writes the log appends n bytes
FileAppend ==
    /\ captureMode \in {"unset", "file"}
    /\ fExists
    /\ \E n \in 1..(MaxFileBytes - fSize) : fSize' = fSize + n
    /\ UNCHANGED <<captureMode, fExists, logfile_pos, fMissing, fFrom, fRead,
                   fKept, fClassified, fHigh, qvars, wkvars, vivars, dvars,
                   clvars, tvars>>

\* the log is truncated to a shorter size
FileTruncate ==
    /\ captureMode = "file"
    /\ fExists /\ fSize > 0
    /\ fSize' \in 0..(fSize - 1)
    /\ UNCHANGED <<captureMode, fExists, logfile_pos, fMissing, fFrom, fRead,
                   fKept, fClassified, fHigh, qvars, wkvars, vivars, dvars,
                   clvars, tvars>>

\* the log is removed
FileRemove ==
    /\ captureMode = "file"
    /\ fExists
    /\ fExists' = FALSE
    /\ fSize' = 0
    /\ UNCHANGED <<captureMode, logfile_pos, fMissing, fFrom, fRead, fKept,
                   fClassified, fHigh, qvars, wkvars, vivars, dvars, clvars, tvars>>

\* the log is created, empty
FileCreate ==
    /\ captureMode \in {"unset", "file"}
    /\ ~fExists
    /\ fExists' = TRUE
    /\ fSize' = 0
    /\ UNCHANGED <<captureMode, logfile_pos, fMissing, fFrom, fRead, fKept,
                   fClassified, fHigh, qvars, wkvars, vivars, dvars, clvars, tvars>>

\* main.py:316-320, 334-343 with capture.py:30-39  one iteration in log-file
\* mode.  The file is there: seek(last_pos), read to the end, tell();
\* clean_terminal_output and strip() keep `kept` of the characters read
\* (any number: it depends on the content); the text goes to the classifier
\* when it is long enough.  The file is missing: "" and last_pos are
\* returned, new_text is None.
FilePoll ==
    /\ captureMode = "file"
    /\ fMissing' = ~fExists
    /\ IF fExists
         THEN /\ fFrom' = SeekTo(logfile_pos)
              /\ fRead' = BytesFrom(SeekTo(logfile_pos), fSize)
              /\ logfile_pos' = SeekTo(logfile_pos)
                                  + BytesFrom(SeekTo(logfile_pos), fSize)
              /\ fKept' \in 0..BytesFrom(SeekTo(logfile_pos), fSize)
         ELSE /\ fFrom' = logfile_pos
              /\ fRead' = 0
              /\ logfile_pos' = MissingPos(logfile_pos)
              /\ fKept' = 0
    /\ fClassified' = LongEnough(fKept')
    /\ fHigh' = IF fFrom' + fRead' > fHigh THEN fFrom' + fRead' ELSE fHigh
    /\ UNCHANGED <<captureMode, fExists, fSize, qvars, wkvars, vivars, dvars,
                   clvars, tvars>>

\* main.py:330 in earlier iterations of pane mode
PanePrevious ==
    /\ captureMode = "pane"
    /\ PollEarlier

\* main.py:322-336 with capture.py:20-21, 26-27  one iteration in pane mode
\* whose capture failed or timed out
PaneFailed ==
    /\ captureMode = "pane"
    /\ PollFailed

CaptureNext ==
    \/ CaptureStart
    \/ FileAppend
    \/ FileTruncate
    \/ FileRemove
    \/ FileCreate
    \/ FilePoll
    \/ PanePrevious
    \/ PaneFailed

CaptureSpec == OneQueueInit /\ [][CaptureNext]_vars

\* =========================================================================
\* The truncation of the narration in filter_with_llm (llm.py:84-101).  A
\* text is a sequence of runs [c, n]: n >= 1 characters of the kind c, which
\* is "w" (a character of a word), " " (the space) or NL (a newline); two
\* neighbouring runs differ in kind.
\* =========================================================================
RunKinds == {"w", " ", "NL"}

\* lengths of a run, on both sides of max_narration and of its half
RunLengths == {1, 2, 249, 250, 499, 500, 501}

IsText(r) ==
    /\ \A i \in 1..(Len(r) - 1) : r[i].c # r[i + 1].c
    /\ r # <<>> => (r[1].c = "w" /\ r[Len(r)].c = "w")

\* llm.py:84  the responses after .strip(): texts that begin and end with a
\* word
Responses ==
    {r \in UNION {[1..k -> [c : RunKinds, n : RunLengths]] : k \in 1..MaxRuns} :
        IsText(r)}

\* len(text)
RECURSIVE RunsLen(_)
RunsLen(r) == IF r = <<>> THEN 0 ELSE r[1].n + RunsLen(Tail(r))

\* text[:k]
RECURSIVE TakeChars(_, _)
TakeChars(r, k) ==
    IF r = <<>> \/ k <= 0 THEN <<>>
    ELSE IF r[1].n <= k THEN <<r[1]>> \o TakeChars(Tail(r), k - r[1].n)
    ELSE <<[c |-> r[1].c, n |-> k]>>

\* the kind of text[p - 1] (the p-th character), "END" beyond the text
RECURSIVE RunCharAt(_, _)
RunCharAt(r, p) ==
    IF r = <<>> \/ p <= 0 THEN "END"
    ELSE IF p <= r[1].n THEN r[1].c
    ELSE RunCharAt(Tail(r), p - r[1].n)

\* llm.py:99  rsplit(" ", 1) splits at the last occurrence of the space
\* character U+0020, and of no other white space: its position, counting
\* from 1, or 0 when the text has no space
LastSplitPoint(r) ==
    LET S == {i \in 1..Len(r) : r[i].c = " "}
    IN IF S = {} THEN 0
       ELSE RunsLen(SubSeq(r, 1, CHOOSE i \in S : \A j \in S : j <= i))

\* llm.py:99  text.rsplit(" ", 1)[0]: the text before the last space, the
\* whole text when it has none
BeforeLastSpace(r) ==
    IF LastSplitPoint(r) = 0 THEN r ELSE TakeChars(r, LastSplitPoint(r) - 1)

\* llm.py:96-101  result[:max_narration].rsplit(" ", 1)[0] + "..." when
\* len(result) > max_narration
TruncateNarration(result) ==
    IF RunsLen(result) > max_narration
      THEN [text |-> BeforeLastSpace(TakeChars(result, max_narration)),
            ellipsis |-> TRUE]
      ELSE [text |-> result, ellipsis |-> FALSE]

\* llm.py:84-94  the response has arrived and is neither empty nor SKIP;
\* its prefix [Q] or [S], if any, is parsed and removed
TruncResponse ==
    /\ tPc = "start"
    /\ tPc' = "response"
    /\ tTag' \in {"Q", "S", "none"}
    /\ tResult' \in Responses
    /\ UNCHANGED <<tOut, qvars, wkvars, vivars, dvars, clvars, fvars>>

\* llm.py:96-101  the narration is truncated and returned
TruncReturn ==
    /\ tPc = "response"
    /\ tPc' = "returned"
    /\ tOut' = TruncateNarration(tResult)
    /\ UNCHANGED <<tTag, tResult, qvars, wkvars, vivars, dvars, clvars, fvars>>

TruncNext ==
    \/ TruncResponse
    \/ TruncReturn

TruncSpec == OneQueueInit /\ [][TruncNext]_vars

\* =========================================================================
\* clean_terminal_output and strip_ansi (clean.py:5-69).
\* =========================================================================
\* the characters of a text: ESC (\x1b), "[", the letter m, "?", a space,
\* a newline (NL) and a box-drawing character (BOX, e.g. U+2500)
ESC == "ESC"

NL == "NL"

BOX == "BOX"

BEL == "BEL"

Chars == {ESC, "[", "m", "?", " ", NL, BOX}

Texts(n) == UNION {[1..k -> Chars] : k \in 0..n}

\* clean.py:9  [0-9;?]
CsiParams == {"0", "1", "2", "3", "4", "5", "6", "7", "8", "9", ";", "?"}

\* clean.py:10  [A-Za-z], the letters among Chars
Letters == {"m"}

\* clean.py:22  [\x00-\x08\x0b\x0c\x0e-\x1f\x7f], the control characters
\* among Chars and BEL
ControlChars == {ESC, BEL}

CharAt(t, i) == IF i >= 1 /\ i <= Len(t) THEN t[i] ELSE "END"

\* clean.py:9  number of characters of [0-9;?]* (greedy) at position i
RECURSIVE ParamRun(_, _)
ParamRun(t, i) ==
    IF CharAt(t, i) \in CsiParams THEN 1 + ParamRun(t, i + 1) ELSE 0

\* clean.py:13-14  .*? up to the first BEL or ESC \ on the same line: the
\* position of its last character, 0 if there is none
RECURSIVE OscEnd(_, _)
OscEnd(t, i) ==
    IF i > Len(t) \/ t[i] = NL THEN 0
    ELSE IF t[i] = BEL THEN i
    ELSE IF t[i] = ESC /\ CharAt(t, i + 1) = "\\" THEN i + 1
    ELSE OscEnd(t, i + 1)

\* clean.py:5-20  _ANSI_RE: length of its match at position i, 0 if it does
\* not match there.  The alternatives in their order: CSI, OSC, charset
\* switching, keypad and cursor modes.
AnsiMatchLen(t, i) ==
    IF CharAt(t, i) # ESC THEN 0
    ELSE IF CharAt(t, i + 1) = "["
            /\ CharAt(t, i + 2 + ParamRun(t, i + 2)) \in Letters
           THEN 3 + ParamRun(t, i + 2)
    ELSE IF CharAt(t, i + 1) = "]" /\ OscEnd(t, i + 2) # 0
           THEN OscEnd(t, i + 2) - i + 1
    ELSE IF CharAt(t, i + 1) \in {"(", ")"}
            /\ CharAt(t, i + 2) \in {"A", "B", "0", "1", "2"}
           THEN 3
    ELSE IF CharAt(t, i + 1) \in {"=", ">", "<"} THEN 2
    ELSE 0

\* clean.py:50  _ANSI_RE.sub("", text), from position i on
RECURSIVE RemoveAnsi(_, _)
RemoveAnsi(t, i) ==
    IF i > Len(t) THEN <<>>
    ELSE IF AnsiMatchLen(t, i) > 0 THEN RemoveAnsi(t, i + AnsiMatchLen(t, i))
    ELSE <<t[i]>> \o RemoveAnsi(t, i + 1)

\* clean.py:51  _CONTROL_RE.sub("", text)
RemoveControl(t) == SelectSeq(t, LAMBDA c : c \notin ControlChars)

\* clean.py:52  _UNICODE_NOISE_RE.sub(" ", text): each run of noise
\* characters becomes one space
RECURSIVE ReplaceNoise(_, _)
ReplaceNoise(t, i) ==
    IF i > Len(t) THEN <<>>
    ELSE IF t[i] = BOX
           THEN IF CharAt(t, i - 1) = BOX THEN ReplaceNoise(t, i + 1)
                ELSE <<" ">> \o ReplaceNoise(t, i + 1)
    ELSE <<t[i]>> \o ReplaceNoise(t, i + 1)

\* clean.py:54  re.sub(r"  +", " ", text): each run of two or more spaces
\* becomes one space
RECURSIVE CollapseSpaces(_, _)
CollapseSpaces(t, i) ==
    IF i > Len(t) THEN <<>>
    ELSE IF t[i] = " " /\ CharAt(t, i - 1) = " " THEN CollapseSpaces(t, i + 1)
    ELSE <<t[i]>> \o CollapseSpaces(t, i + 1)

strip_ansi_CollapseFirst(text) ==
    ReplaceNoise(CollapseSpaces(RemoveControl(RemoveAnsi(text, 1)), 1), 1)

\* clean.py:48-55
strip_ansi(text) ==
    CollapseSpaces(ReplaceNoise(RemoveControl(RemoveAnsi(text, 1)), 1), 1)

\* clean.py:62  text.splitlines(): the lines of the text from position i on,
\* `line` being the part of the current line read so far
RECURSIVE SplitLines(_, _, _)
SplitLines(t, i, line) ==
    IF i > Len(t) THEN IF line = <<>> THEN <<>> ELSE <<line>>
    ELSE IF t[i] = NL THEN <<line>> \o SplitLines(t, i + 1, <<>>)
    ELSE SplitLines(t, i + 1, Append(line, t[i]))

\* clean.py:63  line.strip()
RECURSIVE StripLine(_)
StripLine(line) ==
    IF line = <<>> THEN <<>>
    ELSE IF Head(line) = " " THEN StripLine(Tail(line))
    ELSE IF line[Len(line)] = " " THEN StripLine(SubSeq(line, 1, Len(line) - 1))
    ELSE line

\* clean.py:28-45, 66  any(p.search(line) for p in _NOISE_PATTERNS) on a
\* stripped line over Chars.  Of the patterns only "? for shortcuts" (32)
\* can match: a line that is a single "?".  The patterns at 29-31 need a
\* box-drawing character, which strip_ansi has replaced by a space; those at
\* 33-43 need a word, a digit, "/" or "~"; 44 is the blank line.
NoiseLine(line) == line = <<"?">> \/ line = <<>>

\* clean.py:69  "\n".join(clean_lines)
RECURSIVE JoinLines(_)
JoinLines(lines) ==
    IF lines = <<>> THEN <<>>
    ELSE IF Len(lines) = 1 THEN lines[1]
    ELSE lines[1] \o <<NL>> \o JoinLines(Tail(lines))

\* clean.py:61-68  the stripped lines that are neither empty nor noise
KeptLines(lines) ==
    SelectSeq([i \in 1..Len(lines) |-> StripLine(lines[i])],
              LAMBDA l : l # <<>> /\ ~NoiseLine(l))

\* clean.py:58-69
clean_terminal_output(text) ==
    JoinLines(KeptLines(SplitLines(strip_ansi(text), 1, <<>>)))

\* clean(x) for a text x
CleanOnce ==
    /\ clPc = "start"
    /\ clPc' = "once"
    /\ \E x \in Texts(MaxChars) :
         /\ clIn' = x
         /\ clOut' = clean_terminal_output(x)
    /\ UNCHANGED <<clOut2, qvars, wkvars, vivars, dvars, fvars, tvars>>

\* clean(clean(x))
CleanTwice ==
    /\ clPc = "once"
    /\ clPc' = "twice"
    /\ clOut2' = clean_terminal_output(clOut)
    /\ UNCHANGED <<clIn, clOut, qvars, wkvars, vivars, dvars, fvars, tvars>>

CleanNext ==
    \/ CleanOnce
    \/ CleanTwice

CleanSpec == OneQueueInit /\ [][CleanNext]_vars

\* =========================================================================
\* VoiceInput.listen_and_transcribe (stt.py:124-130) with record_utterance
\* (stt.py:43-103).  The clock advances while stream.read blocks.
\* =========================================================================
\* VAD confidences of a frame, in tenths, on both sides of the threshold
VadConfidences == {4, 5}

\* stt.py:81, 87  confidence >= speech_threshold
SpeechDetected_Always(conf) == TRUE

SpeechDetected(conf) == conf >= SpeechThreshold

\* stt.py:73  time.monotonic() < deadline
BeforeDeadline_Always(now, dl) == TRUE

BeforeDeadline(now, dl) == now < dl

\* stt.py:90  time.monotonic() - silence_start >= self.silence_timeout
SilenceElapsed_AtOnce(now, start, limit) == TRUE

SilenceElapsed(now, start, limit) == now - start >= limit

\* stt.py:100-101, 127  audio is None or len(audio) < 1600
UtteranceTooShort_EmptyOnly(n) == n = 0

UtteranceTooShort(n) == n = 0 \/ n * SttChunkSamples < MinUtteranceSamples

\* main.py:179-183 with stt.py:13-23  VoiceInput(stt_model, silence_timeout,
\* listen_timeout) with the timeouts of the command line
VoiceInputNew ==
    /\ vPc = "none"
    /\ vPc' = "idle"
    /\ listen_timeout' \in 1..MaxListenTimeout
    /\ silence_timeout' \in 1..MaxSilenceTimeout
    /\ UNCHANGED <<vNow, deadline, speech_started, silence_start, nFrames,
                   streamOpen, vadReset, vResult, nTranscribe, heard,
                   lastLoud, vText, qvars, wkvars, dvars, clvars, fvars, tvars>>

\* stt.py:126, 53-70  listen_and_transcribe calls record_utterance, which sets
\* its locals and the deadline and starts the input stream
VoiceCall ==
    /\ vPc = "idle"
    /\ vPc' = "test"
    /\ deadline' = vNow + listen_timeout
    /\ speech_started' = FALSE
    /\ silence_start' = NoTime
    /\ nFrames' = 0
    /\ streamOpen' = TRUE
    /\ UNCHANGED <<listen_timeout, silence_timeout, vNow, vadReset, vResult,
                   nTranscribe, heard, lastLoud, vText, qvars, wkvars, dvars,
                   clvars, fvars, tvars>>

\* stt.py:73  while time.monotonic() < deadline
VoiceTest ==
    /\ vPc = "test"
    /\ vPc' = IF BeforeDeadline(vNow, deadline) THEN "read" ELSE "finally"
    /\ UNCHANGED <<listen_timeout, silence_timeout, vNow, deadline,
                   speech_started, silence_start, nFrames, streamOpen,
                   vadReset, vResult, nTranscribe, heard, lastLoud, vText,
                   qvars, wkvars, dvars, clvars, fvars, tvars>>

\* stt.py:74-93  one frame: read it, score it, then the two-phase gate
VoiceFrame ==
    /\ vPc = "read"
    /\ \E dt \in 1..MaxFrameStep, conf \in VadConfidences :
         LET now == vNow + dt IN
         /\ vNow' = now
         /\ heard' = (heard \/ conf >= SpeechThreshold)
         /\ lastLoud' = IF conf >= SpeechThreshold THEN now ELSE lastLoud
         /\ IF ~speech_started
              THEN /\ speech_started' = SpeechDetected(conf)
                   /\ nFrames' = IF SpeechDetected(conf) THEN nFrames + 1
                                 ELSE nFrames
                   /\ silence_start' = IF SpeechDetected(conf) THEN NoTime
                                       ELSE silence_start
                   /\ vPc' = "test"
              ELSE /\ speech_started' = speech_started
                   /\ nFrames' = nFrames + 1
                   /\ IF ~SpeechDetected(conf)
                        THEN IF silence_start = NoTime
                               THEN silence_start' = now /\ vPc' = "test"
                               ELSE /\ silence_start' = silence_start
                                    /\ vPc' = IF SilenceElapsed(now,
                                                  silence_start, silence_timeout)
                                              THEN "finally" ELSE "test"
                        ELSE silence_start' = NoTime /\ vPc' = "test"
    /\ UNCHANGED <<listen_timeout, silence_timeout, deadline, streamOpen,
                   vadReset, vResult, nTranscribe, vText, qvars, wkvars,
                   dvars, clvars, fvars, tvars>>

\* stt.py:94-98  finally: stop and close the stream, reset the VAD state
VoiceFinally ==
    /\ vPc = "finally"
    /\ streamOpen' = FALSE
    /\ vadReset' = TRUE
    /\ vPc' = "check"
    /\ UNCHANGED <<listen_timeout, silence_timeout, vNow, deadline,
                   speech_started, silence_start, nFrames, vResult,
                   nTranscribe, heard, lastLoud, vText, qvars, wkvars, dvars,
                   clvars, fvars, tvars>>

\* stt.py:100-103, 127-128  no frames: audio is None; too short: return None
VoiceCheck ==
    /\ vPc = "check"
    /\ IF UtteranceTooShort(nFrames)
         THEN vPc' = "returned" /\ vResult' = "None"
         ELSE vPc' = "transcribe" /\ vResult' = vResult
    /\ UNCHANGED <<listen_timeout, silence_timeout, vNow, deadline,
                   speech_started, silence_start, nFrames, streamOpen,
                   vadReset, nTranscribe, heard, lastLoud, vText, qvars,
                   wkvars, dvars, clvars, fvars, tvars>>

\* stt.py:130  return text if text else None
ReturnOf_Always(text) == "text"

ReturnOf(text) == IF text = "empty" THEN "None" ELSE "text"

\* stt.py:129-130, 109-118  transcribe(audio) returns the stripped text,
\* empty or not; empty text is returned as None
VoiceTranscribe ==
    /\ vPc = "transcribe"
    /\ nTranscribe' = nTranscribe + 1
    /\ \E text \in {"empty", "words"} :
         /\ vText' = text
         /\ vResult' = ReturnOf(text)
    /\ vPc' = "returned"
    /\ UNCHANGED <<listen_timeout, silence_timeout, vNow, deadline,
                   speech_started, silence_start, nFrames, streamOpen,
                   vadReset, heard, lastLoud, qvars, wkvars, dvars, clvars, fvars, tvars>>

VoiceNext ==
    \/ VoiceInputNew
    \/ VoiceCall
    \/ VoiceTest
    \/ VoiceFrame
    \/ VoiceFinally
    \/ VoiceCheck
    \/ VoiceTranscribe

VoiceSpec == OneQueueInit /\ [][VoiceNext]_vars

\* the same with every call returning: stream.read returns a frame (stt.py:74),
\* the VAD model and transcribe() return, the thread is scheduled
VoiceLiveSpec == OneQueueInit /\ [][VoiceNext]_vars /\ WF_vars(VoiceNext)

\* =========================================================================
\* Properties
\* =========================================================================
\* position of an id in the order of the appends to the queue
EnqPos(id) == CHOOSE k \in 1..Len(accepted) : accepted[k] = id

\* the enqueue call in progress returns from its with block
EnqueueReturns == mainPc = "enq_body" /\ mainPc' = "sleep"

\* C1: for a queue constructed with bound N >= 1, the number of pending items
\* is at most N in every reachable state, whatever the interleaving of
\* enqueue, dequeue, interrupt, pause and resume.
C1_PendingBounded == max_pending >= 1 /\ Len(queue) <= max_pending

\* a full queue from which enqueue has already evicted an item
C1_Witness == Len(queue) = max_pending /\ nDI > max_pending

\* C2 as stated: when the enqueue that completes N+1 appends with no dequeue
\* in between returns, exactly the N most recently enqueued items are
\* pending, in enqueue order.
C2_NoDequeueInBetween ==
    [][(EnqueueReturns /\ nD' >= max_pending + 1)
         => IdSeq(queue') = LastN(accepted', max_pending)]_vars

\* an enqueue on a full queue evicts exactly the oldest pending item and
\* appends the new one at the tail; otherwise it only appends
C2_EnqueueStep ==
    EnqueueReturns =>
        /\ Len(queue) >= max_pending =>
              /\ Len(queue') = Len(queue)
              /\ \A i \in 1..(Len(queue) - 1) : queue'[i] = queue[i + 1]
        /\ Len(queue) < max_pending =>
              /\ Len(queue') = Len(queue) + 1
              /\ \A i \in 1..Len(queue) : queue'[i] = queue[i]
        /\ queue'[Len(queue')] = mainItem

C2_NoDequeueOrInterruptInBetween ==
    nDI >= max_pending + 1 => IdSeq(queue) = LastN(accepted, max_pending)

\* C2 (amended): N+1 appends with neither a dequeue nor an interrupt in
\* between leave exactly the N most recently enqueued items, in enqueue
\* order; and each enqueue on a full queue evicts exactly one item, the
\* oldest pending one, and appends the new item at the tail.
C2_Overflow == []C2_NoDequeueOrInterruptInBetween /\ [][C2_EnqueueStep]_vars

\* N+1 appends in a row have just overflowed the queue
C2_Witness == nDI = max_pending + 1 /\ Len(queue) = max_pending

\* C3: when an interrupt() called during playback returns, nothing is
\* pending and no player process is running.
C3_InterruptAtomic ==
    [][(iPc = "audio" /\ iPc' = "idle" /\ iActive)
         => (queue' = <<>> /\ ~proc_running')]_vars

\* C4: items are spoken in enqueue order.  The pending items are in enqueue
\* order, each was enqueued after the item the consumer holds and after the
\* item spoken last, and the item about to be passed to speak() was enqueued
\* after the one spoken last (hence after every one spoken before).
C4_SpokenInEnqueueOrder ==
    /\ \A i, j \in 1..Len(queue) :
         i < j => EnqPos(queue[i].id) < EnqPos(queue[j].id)
    /\ \A i \in 1..Len(queue) :
         /\ wItem # NoItem => EnqPos(wItem.id) < EnqPos(queue[i].id)
         /\ lastSpoken # 0 => EnqPos(lastSpoken) < EnqPos(queue[i].id)
    /\ (wPc = "speak" /\ lastSpoken # 0)
         => EnqPos(lastSpoken) < EnqPos(wItem.id)

\* a second item is about to be spoken while another one is pending
C4_Witness == wPc = "speak" /\ lastSpoken # 0 /\ queue # <<>>

\* C5: an item passed to enqueue() while the queue is paused is discarded: it
\* is never appended, never pending, never held by the consumer and never
\* spoken, also after a later resume().
C5_PausedEnqueueDiscarded ==
    \A id \in calledPaused :
        /\ \A k \in 1..Len(accepted) : accepted[k] # id
        /\ id \notin Ids(queue)
        /\ wItem.id # id
        /\ lastSpoken # id
        /\ mainPc \in {"enq_lock", "enq_body"} => mainItem.id # id

\* after a resume, an item enqueued later than a discarded one was spoken
C5_Witness ==
    /\ ~paused
    /\ \E id \in calledPaused : lastSpoken > id

\* C6: nothing that happens inside a speech call ends the consumer thread;
\* its loop ends only through stop().
C6_ConsumerEndsOnlyByStop == wPc \in {"exited", "crashed"} => stopEv

\* C8: once the operator has entered stop, the process has ended.
C8_StopEndsProcess == stopCmd => ~alive

\* C9: once stop() has been called, the consumer takes no item from the
\* queue any more: what is pending then, or enqueued later, is never spoken.
C9_NothingDequeuedAfterStop ==
    [][(stopEv /\ wPc = "dequeue") => wPc' # "speak"]_vars

\* C10: only an operator-issued stop ends the process; no failure of a
\* component does.
C10_OnlyOperatorEndsProcess == ~alive => exitCause = "ctrl_c"

\* C11: one narration item is in flight at a time.  The single consumer
\* thread is inside at most one speech call, a player process runs only
\* while the consumer is blocked in the speech call of the item it holds,
\* and when the consumer is about to pass an item to speak() the speech call
\* of the previous item has returned: no player runs and no handle is set.
InSpeechCall == wPc \in {"synth", "popen", "wait_read", "waiting", "finally"}

C11_OneInFlight ==
    /\ proc_running => (wPc \in {"wait_read", "waiting"} /\ wItem # NoItem)
    /\ InSpeechCall => wItem # NoItem
    /\ wPc \in {"loop", "chk_pause", "lock", "dequeue", "speak",
                 "after_speak", "callback", "exited"} =>
         (~proc_running /\ ~cur_proc)

\* the player of a later item runs after an earlier item has been spoken
C11_Witness == proc_running /\ wPc = "waiting" /\ wItem.id >= 2

\* C12: the question callback is invoked for every dequeued Question item
\* once its speech call is over, also when the speech was cut short by an
\* interrupt: the consumer thread never ends while it still holds a Question
\* item whose callback it has not invoked.
C12_QuestionCallbackInvoked ==
    (wPc \in {"exited", "crashed"} /\ on_question) => ~wItem.q

\* C13: voice capture timeout.  When no frame of the session has scored at
\* or above the speech threshold, no frame is recorded, transcribe() is
\* never called, and listen_and_transcribe returns None.
C13_TimeoutReturnsNone ==
    ~heard =>
        /\ nFrames = 0
        /\ nTranscribe = 0
        /\ vPc # "transcribe"
        /\ vPc = "returned" => vResult = "None"

\* a session that heard no speech has run past its deadline and returned
C13_Witness ==
    /\ vPc = "returned" /\ ~heard
    /\ vNow >= deadline /\ listen_timeout >= 2

\* C14: a failed classification request degrades to suppress.  For each of
\* the failures (connection refused, timeout, HTTP error status, malformed
\* body) filter_with_llm returns None and nothing leaves it: the process
\* lives on, the step enqueues nothing and makes no enqueue call, the loop
\* sleeps, and its next step is the capture of the next cycle.
C14_FailureSuppressed ==
    /\ exitCause # "classifier_error"
    /\ clsOut = "failed" =>
         (alive /\ mainPc = "sleep" /\ mainItem = NoItem)

C14_FailureStep ==
    /\ (mainPc = "classify" /\ clsOut' = "failed") =>
         (alive' /\ mainPc' = "sleep" /\ queue' = queue
            /\ accepted' = accepted /\ nextId' = nextId)
    /\ (clsOut = "failed" /\ alive' /\ mainPc' # mainPc) =>
         (mainPc' = "capture" /\ queue' = queue /\ accepted' = accepted)

C14_ClassifierFailure == []C14_FailureSuppressed /\ [][C14_FailureStep]_vars

\* after an item was enqueued, a later request failed and the loop sleeps
\* until the next cycle
C14_Witness ==
    /\ clsOut = "failed" /\ mainPc = "sleep"
    /\ Len(accepted) >= 1

\* the last poll was an append: every line of the previous snapshot is still
\* there and lines were appended
AppendCase ==
    /\ dPc = "done" /\ dKind = "scroll"
    /\ dPrev # <<>> /\ dKeep = Len(dPrev)

\* the last poll was a scroll: leading lines are gone, the last lines of the
\* previous snapshot are still there and lines were appended
ScrollCase ==
    /\ dPc = "done" /\ dKind = "scroll"
    /\ dKeep >= 1 /\ dKeep < Len(dPrev)

\* the last line of the previous snapshot does not occur among the appended
\* lines
NoRepeat == \A i \in 1..Len(dApp) : dApp[i] # dPrev[Len(dPrev)]

\* the appended lines begin and end with a line of text without white space
\* around it
CleanEnds == dApp[1] = "a" /\ dApp[Len(dApp)] = "a"

\* C15 as stated: in the append case get_new_output returns exactly the
\* appended lines.
C15_AppendExact ==
    AppendCase => dRes = [none |-> FALSE, lines |-> dApp]

\* C15 (amended): in the append case, when the last line of the previous
\* snapshot does not occur among the appended lines, get_new_output returns
\* the appended lines joined and trimmed of surrounding white space, None
\* when nothing is left; these are exactly the appended lines when they
\* begin and end with text that has no white space around it.
C15_AppendTrimmed ==
    (AppendCase /\ NoRepeat) =>
        /\ dRes = TextOrNone(dApp)
        /\ CleanEnds => dRes = [none |-> FALSE, lines |-> dApp]

\* two lines were appended to a snapshot of five lines
C15_Witness ==
    /\ AppendCase /\ NoRepeat /\ CleanEnds
    /\ Len(dPrev) = 5 /\ Len(dApp) = 2
    /\ dRes = [none |-> FALSE, lines |-> dApp]

\* C16 as stated: in the scroll case get_new_output returns exactly the
\* appended lines.
C16_ScrollExact ==
    ScrollCase => dRes = [none |-> FALSE, lines |-> dApp]

\* C16 (amended): in the scroll case, when the last line of the previous
\* snapshot does not occur among the appended lines, get_new_output returns
\* the appended lines joined and trimmed of surrounding white space, None
\* when nothing is left; these are exactly the appended lines when they
\* begin and end with text that has no white space around it.
C16_ScrollTrimmed ==
    (ScrollCase /\ NoRepeat) =>
        /\ dRes = TextOrNone(dApp)
        /\ CleanEnds => dRes.lines = dApp /\ ~dRes.none

\* one line scrolled off a snapshot of four lines and one line was appended
C16_Witness ==
    /\ ScrollCase /\ NoRepeat /\ CleanEnds
    /\ Len(dPrev) = 4 /\ dKeep = 3 /\ Len(dApp) = 1
    /\ dRes = [none |-> FALSE, lines |-> <<"a">>]

\* C17: with no previous snapshot get_new_output returns None whatever the
\* current snapshot is; a failed capture leaves no previous snapshot, so the
\* first screen and the first capture after a failed one yield nothing to
\* classify.
C17_NoHistory ==
    /\ (dKind # "none" /\ dPrev = <<>>) => dRes = NoneResult
    /\ dKind = "failed" => (previous_output = <<>> /\ dRes = NoneResult)

\* a screen of three lines was captured while there was no previous
\* snapshot
C17_Witness ==
    /\ dPc = "done" /\ dPrev = <<>> /\ Len(dCur) = 3
    /\ dCur[1] = "a"
    /\ dRes = NoneResult

\* C18: two snapshots with the same lines yield None.
C18_Identity == (dKind # "none" /\ dPrev = dCur) => dRes = NoneResult

\* get_new_output was applied to two snapshots of the same four lines
C18_Witness ==
    /\ dKind = "same" /\ dPrev = dCur /\ Len(dCur) = 4
    /\ dRes = NoneResult

\* C19: the noise filter is idempotent: clean(clean(x)) = clean(x).
C19_CleanIdempotent == clPc = "twice" => clOut2 = clOut

\* a text with an escape sequence, a box-drawing character and two lines
\* was cleaned twice, and the first cleaning changed it
C19_Witness ==
    /\ clPc = "twice" /\ clOut2 = clOut
    /\ clOut # <<>> /\ clOut # clIn
    /\ \E i \in 1..Len(clIn) : clIn[i] = ESC
    /\ \E i \in 1..Len(clIn) : clIn[i] = BOX
    /\ \E i \in 1..Len(clOut) : clOut[i] = NL

\* C20: pause and resume change only the paused flag: the step that sets or
\* clears it leaves the pending items, the player process and the consumer
\* where they are; and the items pending when pause is issued are still
\* pending, in their order, when resume is issued.  An enqueue call appends
\* only after it has found the flag clear, so while the flag is set and an
\* enqueue call is still before its append, every pending item was pending
\* when the flag was set: no step then, other than the clearing of an
\* interrupt, removes or reorders a pending item.
StillPending ==
    /\ Len(queue') >= Len(queue)
    /\ \A i \in 1..Len(queue) : queue'[i] = queue[i]

RefOccurrences(k) ==
    {i \in 0..(Len(dCur) - k) :
        \A j \in 1..k : dCur[i + j] = dPrev[Len(dPrev) - k + j]}

RefSizes ==
    {k \in {5, 3, 2, 1} : k <= Len(dPrev) /\ RefOccurrences(k) # {}}

RefSize == CHOOSE k \in RefSizes : \A m \in RefSizes : m <= k

\* the lines the reference algorithm returns
RefLines ==
    IF RefSizes # {}
      THEN LET k == RefSize
               occ == RefOccurrences(k)
               last == CHOOSE i \in occ : \A m \in occ : m <= i
           IN SubSeq(dCur, last + k + 1, Len(dCur))
    ELSE IF Len(dCur) > Len(dPrev) THEN SubSeq(dCur, Len(dPrev) + 1, Len(dCur))
    ELSE IF Len(dCur) <= 20 THEN dCur
    ELSE SubSeq(dCur, Len(dCur) - 19, Len(dCur))

\* a poll was made with a non-empty previous snapshot and differing lines
RefCase == dKind # "none" /\ dPrev # <<>> /\ dPrev # dCur

\* C21 as stated: get_new_output returns the lines of the reference
\* algorithm, None when there is none.
C21_ReferenceExact ==
    RefCase => LET ref == RefLines
               IN dRes = IF ref = <<>> THEN NoneResult
                         ELSE [none |-> FALSE, lines |-> ref]

\* C21 (amended): get_new_output returns the lines of the reference
\* algorithm joined and trimmed of surrounding white space, None when
\* nothing is left; these are exactly the lines of the reference algorithm
\* when they begin and end with text that has no white space around it.
C21_ReferenceTrimmed ==
    RefCase =>
        LET ref == RefLines
        IN /\ dRes = TextOrNone(ref)
           /\ (ref # <<>> /\ ref[1] = "a" /\ ref[Len(ref)] = "a") =>
                dRes = [none |-> FALSE, lines |-> ref]

\* the anchor of five lines is gone from the pane, the anchor of three lines
\* occurs in it twice, and the lines after its last occurrence were returned
C21_Witness ==
    /\ RefCase /\ Len(dPrev) = 5
    /\ RefSizes # {} /\ RefSize = 3
    /\ Cardinality(RefOccurrences(3)) >= 2
    /\ ~dRes.none /\ dRes.lines = RefLines

\* C22: at-most-once narration.  Over the successive polls of the pane of
\* an append-only stream no line is returned by two polls; the lines counted
\* as returned by a poll are those its result is made of.
C22_AtMostOnce ==
    /\ \A i \in 1..Len(shown) : shown[i] <= 1
    /\ dPc = "stream" =>
         dRes = IF dRet = {} THEN NoneResult
                ELSE [none |-> FALSE,
                      lines |-> SubSeq(dCur, SetMin(dRet), SetMax(dRet))]

\* the pane shows lines that an earlier poll returned, followed by lines
\* that the last poll returned
C22_Witness ==
    /\ dPc = "stream" /\ ~dRes.none
    /\ dKeep >= 1 /\ dKeep < Len(dCur)
    /\ \E i \in 1..dKeep : shown[i] = 1
    /\ \A i \in dRet : i > dKeep /\ shown[i] = 1

\* C23: while the paused flag is set the consumer idles: it takes no item
\* from the queue and passes no item to speak().
C23_PausedConsumerIdles ==
    [][(paused /\ alive') =>
         /\ ~(wPc = "dequeue" /\ wPc' = "speak")
         /\ ~(wPc = "speak" /\ wPc' # "speak")]_vars

\* C24: lock discipline of the queue state.  Every step that changes the
\* pending sequence or the pause flag is made by a thread that holds the
\* queue lock, and the pause flag does not change between the paused check
\* of an enqueue call and its append.
C24_LockDiscipline ==
    [][alive' =>
         /\ (queue' # queue \/ paused' # paused) => qLock # "free"
         /\ mainPc \in {"enq_lock", "enq_body"} => paused' = paused]_vars

\* the consumer is inside speak() or inside the question callback, or
\* between them
ConsumerBusy ==
    wPc \in {"speak", "synth", "popen", "wait_read", "waiting", "finally",
             "after_speak", "callback"}

\* C25: the consumer holds the queue lock only inside its with block, never
\* while it is in a speech call or in the question callback: then an enqueue
\* call waiting for the lock can take it unless interrupt holds it, and an
\* interrupt call can take it unless enqueue holds it.
C25_LockFreeWhileSpeaking ==
    /\ qLock = "worker" <=> wPc = "dequeue"
    /\ ConsumerBusy => qLock # "worker"
    /\ (ConsumerBusy /\ mainPc = "enq_lock" /\ qLock # "interrupt")
         => ENABLED EnqueueLock
    /\ (ConsumerBusy /\ iPc = "idle" /\ qLock # "main")
         => ENABLED InterruptCall

\* enqueue holds the queue lock while the player of the consumer's speech
\* call is running
C25_Witness ==
    /\ wPc = "waiting" /\ proc_running
    /\ mainPc = "enq_body" /\ qLock = "main"

\* C26: the audio handle is read and written under the audio lock only, so
\* the handle the consumer uses to wait for the player has not been set to
\* None by another thread.
C26_HandleGuarded == wPc = "wait_read" => cur_proc

\* a frame is read and scored in this step
FrameStep == vPc = "read" /\ vPc' # "read"

\* C27: the recording phase.  Once a frame has scored at or above the
\* threshold every later frame is appended; a frame at or above the
\* threshold clears the silence timer and does not end the session; and the
\* session ends at a frame, rather than at the test of the deadline, only
\* when that frame and every frame since the silence timer was started
\* scored below the threshold and the timer has run for the silence timeout
\* or longer (so the time since the last frame at or above the threshold is
\* longer than that).
C27_RecordingPhase ==
    [][FrameStep =>
         /\ lastLoud # NoTime => nFrames' = nFrames + 1
         /\ lastLoud' = vNow' =>
              (silence_start' = NoTime /\ vPc' = "test"
                 /\ nFrames' = nFrames + 1)
         /\ vPc' = "finally" =>
              /\ lastLoud' = lastLoud /\ lastLoud # NoTime
              /\ silence_start # NoTime /\ silence_start > lastLoud
              /\ vNow' - silence_start >= silence_timeout
              /\ vNow' - lastLoud > silence_timeout]_vars

\* a session with a silence timeout of two ticks has ended on silence before
\* its deadline
C27_Witness ==
    /\ vPc = "finally" /\ vNow < deadline
    /\ silence_timeout = 2 /\ nFrames >= 4
    /\ vNow - silence_start >= 2

C29_MinimumUtterance ==
    /\ nFrames * SttChunkSamples < MinUtteranceSamples <=> nFrames <= 3
    /\ nFrames <= 3 => (nTranscribe = 0 /\ vPc # "transcribe")
    /\ (vPc = "returned" /\ nFrames <= 3) => vResult = "None"
    /\ (vPc = "returned" /\ nFrames >= 4) =>
         /\ nTranscribe = 1
         /\ vText = "empty" => vResult = "None"
         /\ vText = "words" => vResult = "text"
         /\ vText # "unset"

\* a session that recorded three frames has returned
C29_Witness ==
    /\ vPc = "returned" /\ nFrames = 3
    /\ vResult = "None" /\ nTranscribe = 0

\* C30: wake-triggered voice input never blocks the acoustic loop or the
\* capture loop.  A detection that fires starts one more callback thread and
\* leaves the loop's thread in the loop; while callbacks are running the loop
\* can read its next frame (as long as it is not stopped), and the capture
\* loop, which is only ever capturing, filtering, enqueueing or sleeping,
\* can take its next step.
C30_WakeDispatchNonBlocking ==
    /\ [][fireLog' # fireLog =>
            (wakeThreads' = wakeThreads + 1 /\ wkPc' = "read")]_vars
    /\ [](wkPc = "read" /\ (~wkStop => ENABLED WakeFrame))
    /\ [](capPc \in {"capture", "filter", "enqueue", "sleep"}
            /\ ENABLED CaptureStep)

\* two callbacks started by two detections are running, the loop has read a
\* later frame that did not fire, and the capture loop is at its enqueue
C30_Witness ==
    /\ wakeThreads = 2
    /\ ~lastFired
    /\ wkNow > fireLog[Len(fireLog)]
    /\ ~wkStop
    /\ capPc = "enqueue"

C39_CursorMonotone ==
    /\ [][captureMode = "file" => logfile_pos' >= logfile_pos]_vars
    /\ [][FilePoll =>
            /\ fFrom' = logfile_pos
            /\ fRead' > 0 => (fFrom' >= fHigh /\ fFrom' + fRead' = fSize)
            /\ logfile_pos' = fFrom' + fRead']_vars
    /\ [](captureMode = "file" => fHigh <= logfile_pos)

\* a poll has just read two bytes or more, written beyond the cursor that
\* an earlier poll or the start of the loop had left at offset two or more
C39_Witness ==
    /\ captureMode = "file" /\ fExists /\ ~fMissing
    /\ fRead >= 2 /\ fFrom >= 2
    /\ fFrom + fRead = fSize /\ logfile_pos = fSize /\ fHigh = fSize

\* C35: truncation respects word boundaries.  The narration of a response
\* of more than 500 characters is a prefix of it of at most 500 characters,
\* followed by an ellipsis, that does not end inside a word: the character
\* it ends with and the one that follows it in the response are not both
\* characters of a word.  A response of at most 500 characters is returned
\* as it is.
C35_TruncationAtWordBoundary ==
    tPc = "returned" =>
        IF RunsLen(tResult) > max_narration
          THEN /\ tOut.ellipsis
               /\ RunsLen(tOut.text) <= max_narration
               /\ tOut.text = TakeChars(tResult, RunsLen(tOut.text))
               /\ ~(/\ RunCharAt(tResult, RunsLen(tOut.text)) = "w"
                     /\ RunCharAt(tResult, RunsLen(tOut.text) + 1) = "w")
          ELSE tOut = [text |-> tResult, ellipsis |-> FALSE]

\* C36: no deadlock between the queue lock and the audio lock.  The queue
\* lock is held by a thread exactly while that thread is inside its with
\* block, whose body it can always run to the end: it is never held by a
\* thread that is in a block of the audio lock, waits for the player, sleeps
\* or runs the callback.  The blocks of the audio lock are run by threads
\* that do not hold the queue lock and can always run.  Hence a call of
\* enqueue that waits for the lock or holds it returns, and so does a call
\* of interrupt, with its call of interrupt_audio.
C36_NoLockDeadlock ==
    /\ [](alive =>
            /\ (qLock = "main" <=> mainPc = "enq_body")
            /\ (qLock = "worker" <=> wPc = "dequeue")
            /\ (qLock = "interrupt" <=> iPc = "clear")
            /\ (qLock = "main" => ENABLED EnqueueBody)
            /\ (qLock = "worker" => ENABLED WorkerDequeue)
            /\ (qLock = "interrupt" => ENABLED InterruptClear)
            /\ (iPc = "audio" => ENABLED InterruptAudio)
            /\ (wPc \in {"popen", "finally"} => ENABLED WorkerStep))
    /\ (mainPc \in {"enq_lock", "enq_body"}) ~>
           (mainPc \notin {"enq_lock", "enq_body"})
    /\ (iPc \in {"clear", "audio"}) ~> (iPc = "idle" \/ ~alive)

\* an enqueue call waits for the queue lock, which the interrupt holds,
\* while the consumer waits for the player it has started
C36_Witness ==
    /\ alive /\ mainPc = "enq_lock" /\ qLock = "interrupt"
    /\ wPc = "waiting" /\ proc_running

\* C38: voice capture mutual exclusion.  At most one call of
\* listen_and_transcribe on the shared VoiceInput is active at any time,
\* counting the calls made by the threads that the wake word started and the
\* call made by the consumer's question callback.
C38_OneVoiceSession ==
    listening + (IF wPc = "callback" THEN 1 ELSE 0) <= 1

\* C40 as stated: a result that is not None is made of the last k lines of
\* the current snapshot, for some k >= 1.
C40_SuffixExact ==
    (dKind # "none" /\ ~dRes.none) =>
        \E k \in 1..Len(dCur) : dRes.lines = LastN(dCur, k)

\* C40 (amended): a result that is not None is made of the lines i..j of
\* the current snapshot, for some i <= j, where only blank lines follow line
\* j, the first line of the result is line i without its leading white
\* space, and the result neither begins nor ends with a blank line: it is a
\* trailing block of the current snapshot, trimmed, and never empty.
C40_SuffixTrimmed ==
    (dKind # "none" /\ ~dRes.none) =>
        LET res == dRes.lines
        IN /\ res # <<>>
           /\ res[1] # "" /\ res[Len(res)] # ""
           /\ \E j \in 1..Len(dCur) :
                 /\ j >= Len(res)
                 /\ \A m \in (j + 1)..Len(dCur) : dCur[m] = ""
                 /\ res[1] = LStrip(dCur[j - Len(res) + 1])
                 /\ \A m \in 2..Len(res) : res[m] = dCur[j - Len(res) + m]

\* a poll returned a block of the current snapshot that is not the whole of
\* it: a blank line follows the block and is not returned, and the block's
\* first line, " b", is returned as "b"
C40_Witness ==
    /\ dPc = "done" /\ ~dRes.none
    /\ Len(dCur) >= 3 /\ dCur[Len(dCur)] = ""
    /\ Len(dRes.lines) < Len(dCur) - 1
    /\ dRes.lines[1] = "b"
    /\ dCur[Len(dCur) - Len(dRes.lines)] = " b"

\* C37: narration liveness.  An item in the pending sequence is eventually
\* passed to speak(), unless it is evicted by overflow or cleared by an
\* interrupt, the queue is paused or stopped, or the process ends.
C37_NarrationLiveness ==
    \A id \in 1..MaxItems :
        (alive /\ id \in Ids(queue)) ~>
            \/ lastSpoken = id
            \/ (id \notin Ids(queue) /\ wItem.id # id)
            \/ paused \/ stopEv \/ ~alive

\* C33: noise filtering precedes classification.  A text that the pane
\* branch of the capture loop passes to the classifier has no line that the
\* line-level noise filter drops: no blank line and no line matching a noise
\* pattern.
C33_ClassifierInputFiltered ==
    (dPc = "done" /\ PassedToClassifier(dRes)) =>
        \A i \in 1..Len(dRes.lines) : ~IsNoiseLine(dRes.lines[i])

\* C32: a failure to load an acoustic model disables only its own
\* subsystem.  A voice-input call made by the question callback that fails
\* leaves the consumer in its loop: the step out of the callback never ends
\* the consumer thread.
C32_LoadFailureContained ==
    [][(alive' /\ wPc = "callback") => wPc' \in {"callback", "loop"}]_vars

\* C31: the speech interrupt requires sustained speech.  The wake-word loop
\* calls the interrupt callback only when the chunk it calls it for is at
\* least the second of a run of consecutive chunks at or above the interrupt
\* confidence; a single such chunk does not call it.
C31_SustainedSpeechOnly ==
    lastInterrupt => vadRun >= 2

\* C7: the wake callback starts at most once per cooldown window: two
\* firings are at least WakeCooldown apart, a detection fires unless it lies
\* inside the window of the last firing, and nothing else fires.
C7_WakeCooldown ==
    /\ \A i \in 1..(Len(fireLog) - 1) :
         fireLog[i + 1] - fireLog[i] >= WakeCooldown
    /\ lastFired => (lastScore >= WakeThreshold /\ fireLog # <<>>
                       /\ fireLog[Len(fireLog)] = wkNow)
    /\ (lastScore >= WakeThreshold /\ ~lastFired) =>
         (fireLog # <<>> /\ wkNow - fireLog[Len(fireLog)] < WakeCooldown)

\* a detection inside the window was suppressed after the callback had
\* fired a second time, the window of the first firing having elapsed
C7_Witness ==
    /\ Len(fireLog) >= 2
    /\ lastScore >= WakeThreshold
    /\ ~lastFired

====
